---- MODULE Spec2Model ----
(***************************************************************************)
(* Location resolution pipeline of dataAndUtils/legacy/utils/geocoding.py: *)
(* the tiered city match, the resumable checkpoint (geocoding_checkpoint   *)
(* .csv + geocoding_progress.json) and the batch loop of                   *)
(* reverse_geocode_locations.                                              *)
(*                                                                         *)
(* Coordinates are integers in thousandths of a degree (the pipeline       *)
(* rounds every Location to 3 decimals); distances are in metres.          *)
(* Tables (DataFrames) are sequences of records, row order preserved.      *)
(* An optional value (None / a dict) is a sequence of length 0 or 1.       *)
(***************************************************************************)
EXTENDS Integers, Sequences, FiniteSets, TLC

(* ------------------------------ bounds -------------------------------- *)

\* number of stations of the world table a run may be asked to resolve
MaxLocs == 4

\* rows per checkpoint batch; 100 in the source (geocoding.py:548), scaled
\* down so that a run of MaxLocs locations spans more than one batch
geocoding_checkpoint_size == 2

\* number of rows of the candidate pool a city table passed to the matcher
\* is drawn from
MaxCities == 5

\* number of rows of the measurement pool and of the result pool the tables
\* handed to the aggregation are drawn from
MaxMeasurements == 7

MaxResults == 5

\* the number of output batches of a run (num_batches)
MaxBatches == 2

(* ------------------------- program constants -------------------------- *)

MIN_POPULATION == 100000
SEARCH_RADIUS_KM_PRIMARY == 20
SEARCH_RADIUS_KM_FALLBACK == 30
MATCHING_VERSION == "v4_population_radius"
max_retries == 3

\* pandas' NaN / None in a string column, and in the population column
NaN == "NaN"
NoPopulation == -1

\* a file that does not exist, a file truncated to zero bytes, and a file
\* with content (the rows of a CSV table, or the one object of a JSON file)
NoFile == [state |-> "absent", content |-> <<>>]

EmptyFile == [state |-> "empty", content |-> <<>>]

CsvFile(rows) == [state |-> "written", content |-> rows]

JsonFile(info) == [state |-> "written", content |-> <<info>>]

\* data_source tags written by reverse_geocode_locations
TierTags == {"worldcities", "worldcities_small", "nominatim", "geographic_region"}

(* --------------------------- small helpers ---------------------------- *)

Abs(x) == IF x < 0 THEN -x ELSE x

Min(a, b) == IF a < b THEN a ELSE b

Range(s) == {s[k] : k \in DOMAIN s}

(* ------------------------------ the world ----------------------------- *)

\* worldcities.csv: the reference city table (read-only input)
WorldCities ==
    << [city |-> "Rome",       country |-> "Italy",   lat |-> 41900, long |-> 12500,
        population |-> 2800000, id |-> "1380382862"],
       [city |-> "Ciampino",   country |-> "Italy",   lat |-> 41700, long |-> 12500,
        population |-> 38000,   id |-> "1380000001"],
       [city |-> "Smallville", country |-> "Austria", lat |-> 47000, long |-> 12500,
        population |-> 5000,    id |-> "1040000001"],
       [city |-> "Hamlet",     country |-> "Austria", lat |-> 47200, long |-> 12500,
        population |-> NoPopulation, id |-> "1040000002"] >>

\* the station sites of the measurement table (rounded to 3 decimals)
Stations ==
    << [lat |-> 41800, long |-> 12500],     \* 11 km south of Rome
       [lat |-> 47100, long |-> 12500],     \* 11 km from Smallville only
       [lat |-> 64000, long |-> 100000],    \* remote, known to the geocoder
       [lat |-> 0,     long |-> -40000],    \* open ocean
       [lat |-> 70000, long |-> 20000] >>   \* polar

\* what the external reverse geocoder answers when it answers:
\* location.raw['address'], or nothing for a place it does not know
NominatimAnswer(lat, long) ==
    IF lat = 64000 /\ long = 100000
    THEN << [city |-> "Tura", country |-> "Russia"] >>
    ELSE <<>>

(* ----------------------------- the tiers ------------------------------ *)

\* great-circle distance in metres between two points given in thousandths
\* of a degree: 6371 km * pi / 180 is 111.19 km per degree of arc.  Every
\* station and city of the world table that come within the search radii of
\* each other lie on one meridian, where the arc is the latitude difference;
\* for the others the sum of the two arcs only has to exceed the radii.
haversine(lat1, lon1, lat2, lon2) == 111 * (Abs(lat2 - lat1) + Abs(lon2 - lon1))

\* df_cities['distance'] = 6371 * c
WithDistance(station_lat, station_lon, df_cities) ==
    [k \in DOMAIN df_cities |->
        [city |-> df_cities[k].city, country |-> df_cities[k].country,
         lat |-> df_cities[k].lat, long |-> df_cities[k].long,
         population |-> df_cities[k].population, id |-> df_cities[k].id,
         distance |-> haversine(station_lat, station_lon,
                                df_cities[k].lat, df_cities[k].long)]]

\* variant of RanksBefore: the nearer row is ranked first, population only
\* breaks ties of distance
RanksBeforeByDistance(a, b) ==
    \/ a.distance < b.distance
    \/ /\ a.distance = b.distance
       /\ \/ a.population # NoPopulation /\ b.population = NoPopulation
          \/ /\ a.population # NoPopulation /\ b.population # NoPopulation
             /\ a.population > b.population

\* sort_values(['population', 'distance'], ascending=[False, True]): row a is
\* ranked strictly before row b (a missing population sorts last)
RanksBefore(a, b) ==
    \/ a.population # NoPopulation /\ b.population = NoPopulation
    \/ /\ a.population # NoPopulation /\ b.population # NoPopulation
       /\ a.population > b.population
    \/ a.population = b.population /\ a.distance < b.distance

\* df_nearby.sort_values(...).iloc[0]; the sort is stable, so among equally
\* ranked rows the first of the table wins
TopRanked(df_nearby) ==
    LET best == CHOOSE k \in DOMAIN df_nearby :
                    /\ \A j \in DOMAIN df_nearby : ~RanksBefore(df_nearby[j], df_nearby[k])
                    /\ \A j \in 1..(k - 1) : RanksBefore(df_nearby[k], df_nearby[j])
    IN  df_nearby[best]

\* the country filter: df_cities[df_cities['country'] == station_country],
\* or all of df_cities when no hint is given ("") or no row has that country
CountryCandidates(df_cities, station_country) ==
    LET InCountry(r) == r.country = station_country
    IN  IF station_country # "" /\ SelectSeq(df_cities, InCountry) # <<>>
        THEN SelectSeq(df_cities, InCountry)
        ELSE df_cities

\* variant of Nearby: the fallback radius is used from the start
NearbyWidest(df_candidates, primary_radius_km, fallback_radius_km) ==
    LET Fallback(r) == r.distance <= fallback_radius_km * 1000
    IN  SelectSeq(df_candidates, Fallback)

\* df_nearby: the rows within the primary radius, or when there is none
\* the rows within the fallback radius
Nearby(df_candidates, primary_radius_km, fallback_radius_km) ==
    LET Primary(r) == r.distance <= primary_radius_km * 1000
        Fallback(r) == r.distance <= fallback_radius_km * 1000
    IN  IF SelectSeq(df_candidates, Primary) # <<>>
        THEN SelectSeq(df_candidates, Primary)
        ELSE SelectSeq(df_candidates, Fallback)

\* the part of match_station_to_major_city that follows the assignment of
\* the distance column: df_cities carries that column
SelectAndRank(df_cities, primary_radius_km, fallback_radius_km, station_country) ==
    LET df_candidates == CountryCandidates(df_cities, station_country)
        df_nearby == Nearby(df_candidates, primary_radius_km, fallback_radius_km)
    IN  IF df_nearby = <<>> THEN <<>>
        ELSE << [city |-> TopRanked(df_nearby).city,
                 country |-> TopRanked(df_nearby).country,
                 data_source |-> "worldcities"] >>

\* station_country is "" when no country hint is given
match_station_to_major_city(station_lat, station_lon, df_cities, primary_radius_km, fallback_radius_km, station_country) ==
    SelectAndRank(WithDistance(station_lat, station_lon, df_cities),
                  primary_radius_km, fallback_radius_km, station_country)

\* load_worldcities: (df_major_cities, df_all_cities)
IsMajor(r) == r.population # NoPopulation /\ r.population >= MIN_POPULATION

df_major_cities == SelectSeq(WorldCities, IsMajor)

df_all_cities == WorldCities

\* variant of get_geographic_region: a point on a longitude boundary of the
\* ocean bands gets no label
get_geographic_region_open_bands(lat, long) ==
    IF lat > 66500
    THEN [city |-> "Arctic Region", country |-> "Polar", data_source |-> "geographic_region"]
    ELSE IF lat < -66500
    THEN [city |-> "Antarctic Region", country |-> "Polar", data_source |-> "geographic_region"]
    ELSE LET region ==
                IF -30000 < lat /\ lat < 30000
                THEN IF -90000 < long /\ long < -30000 THEN "Atlantic Ocean"
                     ELSE IF -30000 < long /\ long < 60000 THEN "Indian Ocean"
                     ELSE IF (60000 < long /\ long < 180000)
                             \/ (-180000 < long /\ long < -90000) THEN "Pacific Ocean"
                     ELSE ""
                ELSE IF lat > 0 THEN "Remote Northern Region"
                ELSE "Remote Southern Region"
         IN [city |-> region, country |-> "Remote Area", data_source |-> "geographic_region"]

get_geographic_region(lat, long) ==
    IF lat > 66500
    THEN [city |-> "Arctic Region", country |-> "Polar", data_source |-> "geographic_region"]
    ELSE IF lat < -66500
    THEN [city |-> "Antarctic Region", country |-> "Polar", data_source |-> "geographic_region"]
    ELSE LET region ==
                IF -30000 < lat /\ lat < 30000
                THEN IF -90000 < long /\ long < -30000 THEN "Atlantic Ocean"
                     ELSE IF -30000 < long /\ long < 60000 THEN "Indian Ocean"
                     ELSE IF (60000 < long /\ long < 180000)
                             \/ (-180000 < long /\ long < -90000) THEN "Pacific Ocean"
                     ELSE "Remote Ocean"
                ELSE IF lat > 0 THEN "Remote Northern Region"
                ELSE "Remote Southern Region"
         IN [city |-> region, country |-> "Remote Area", data_source |-> "geographic_region"]

(* ------------------------- checkpoint files --------------------------- *)

\* a result row; ver is not a column of the file: it records which version
\* of the algorithm produced the row
Row(lat, long, m, ver) ==
    [lat |-> lat, long |-> long, city |-> m.city, country |-> m.country,
     data_source |-> m.data_source, ver |-> ver]

\* pd.read_csv: an empty field of a text column is read back as NaN
ReadField(x) == IF x = "" THEN NaN ELSE x

read_csv(file) ==
    [k \in DOMAIN file |->
        [col \in DOMAIN file[k] |->
            IF col \in {"city", "country", "data_source"}
            THEN ReadField(file[k][col]) ELSE file[k][col]]]

\* missing_cols: the required columns that existing_geocoded does not have
missing_cols(existing) ==
    {col \in {"lat", "long", "city", "country"} :
        \E k \in DOMAIN existing : col \notin DOMAIN existing[k]}

\* progress_info.get('matching_version', 'v1_nominatim')
checkpoint_version(progress_info) ==
    IF "matching_version" \in DOMAIN progress_info
    THEN progress_info.matching_version
    ELSE "v1_nominatim"

\* load_geocoding_progress: raised is TRUE when read_csv or json.load fails
\* on a zero-byte file; df is None (<<>>) or the loaded table (<<table>>)
load_geocoding_progress(checkpoint_file, progress_file) ==
    IF checkpoint_file = NoFile THEN [raised |-> FALSE, df |-> <<>>]
    ELSE IF checkpoint_file = EmptyFile THEN [raised |-> TRUE, df |-> <<>>]
    ELSE IF progress_file = NoFile
         THEN [raised |-> FALSE, df |-> <<read_csv(checkpoint_file.content)>>]
    ELSE IF progress_file = EmptyFile THEN [raised |-> TRUE, df |-> <<>>]
    ELSE IF checkpoint_version(progress_file.content[1]) # MATCHING_VERSION
         THEN [raised |-> FALSE, df |-> <<>>]
    ELSE [raised |-> FALSE, df |-> <<read_csv(checkpoint_file.content)>>]

\* unique_locs.merge(existing_geocoded, on=['lat', 'long'], how='left')
RECURSIVE LeftMerge(_, _)
LeftMerge(locs, existing) ==
    IF locs = <<>> THEN <<>>
    ELSE LET l == Head(locs)
             SameKey(r) == r.lat = l.lat /\ r.long = l.long
             hits == SelectSeq(existing, SameKey)
             unmatched == [lat |-> l.lat, long |-> l.long, city |-> NaN,
                           country |-> NaN, data_source |-> NaN, ver |-> NaN]
         IN (IF hits = <<>> THEN <<unmatched>> ELSE hits)
            \o LeftMerge(Tail(locs), existing)

\* variant of RowCountChanged: only a merge that lost rows is detected
RowCountShrank(merged, original) == Len(merged) < Len(original)

\* len(unique_locs) != len(unique_locs_original) after the merge
RowCountChanged(merged, original) == Len(merged) # Len(original)

CityIsNa(r) == r.city = NaN

CityNotNa(r) == r.city # NaN

\* variant of NeedsGeocoding: the rows are not filtered on their city
NeedsGeocodingUnfiltered(merged) == merged

\* unique_locs[unique_locs['city'].isna()]
NeedsGeocoding(merged) == SelectSeq(merged, CityIsNa)

\* unique_locs[unique_locs['city'].notna()]
AlreadyGeocoded(merged) == SelectSeq(merged, CityNotNa)

EmptyStats ==
    [worldcities_matched |-> 0, worldcities_small |-> 0, worldcities_distant |-> 0,
     nominatim_fallback |-> 0, geographic_region |-> 0]

(* ----------------------- resolving one location ----------------------- *)

\* variant of safe_reverse: an empty answer is retried like an exception
safe_reverse_retry_empty(lat, long, raising) ==
    IF raising >= max_retries \/ NominatimAnswer(lat, long) = <<>>
    THEN [raw |-> <<>>, attempts |-> max_retries]
    ELSE [raw |-> NominatimAnswer(lat, long), attempts |-> raising + 1]

\* safe_reverse: `raising` is the number of leading attempts on which the
\* rate-limited reverse() raises.  Returns location.raw (<<>> for {}) and the
\* number of calls made to the external geocoder.
safe_reverse(lat, long, raising) ==
    IF raising >= max_retries
    THEN [raw |-> <<>>, attempts |-> max_retries]
    ELSE [raw |-> NominatimAnswer(lat, long), attempts |-> raising + 1]

extract_city(location) == IF location # <<>> THEN location[1].city ELSE ""

extract_country(location) == IF location # <<>> THEN location[1].country ELSE ""

\* the tier calls made for tier 3: one entry per call to the geocoder
NominatimCalls(n) == [k \in 1..n |-> "nominatim"]

\* variant of ResolveRow: the geocoder is asked whenever tier 1 failed,
\* whether or not tier 2 matched
ResolveRowEagerGeocoder(lat, long, raising) ==
    LET step1 == match_station_to_major_city(lat, long, df_major_cities,
                     SEARCH_RADIUS_KM_PRIMARY, SEARCH_RADIUS_KM_FALLBACK, "")
        step2 == match_station_to_major_city(lat, long, df_all_cities,
                     SEARCH_RADIUS_KM_PRIMARY, SEARCH_RADIUS_KM_FALLBACK, "")
        rev == safe_reverse(lat, long, raising)
        city == extract_city(rev.raw)
        asked == <<"major_city", "any_city">> \o NominatimCalls(rev.attempts)
    IN  IF step1 # <<>>
        THEN [match_result |-> step1[1], calls |-> <<"major_city">>]
        ELSE IF step2 # <<>>
        THEN [match_result |-> [step2[1] EXCEPT !.data_source = "worldcities_small"],
              calls |-> asked]
        ELSE IF city # ""
        THEN [match_result |-> [city |-> city, country |-> extract_country(rev.raw),
                                data_source |-> "nominatim"],
              calls |-> asked]
        ELSE [match_result |-> get_geographic_region(lat, long),
              calls |-> asked \o <<"geographic">>]

\* the body of the per-row loop: the cascade of the four tiers.  Returns the
\* match_result and the tier calls made, in order.
ResolveRow(lat, long, raising) ==
    LET step1 == match_station_to_major_city(lat, long, df_major_cities,
                     SEARCH_RADIUS_KM_PRIMARY, SEARCH_RADIUS_KM_FALLBACK, "")
        step2 == match_station_to_major_city(lat, long, df_all_cities,
                     SEARCH_RADIUS_KM_PRIMARY, SEARCH_RADIUS_KM_FALLBACK, "")
        rev == safe_reverse(lat, long, raising)
        city == extract_city(rev.raw)
    IN  IF step1 # <<>>
        THEN [match_result |-> step1[1], calls |-> <<"major_city">>]
        ELSE IF step2 # <<>>
        THEN [match_result |-> [step2[1] EXCEPT !.data_source = "worldcities_small"],
              calls |-> <<"major_city", "any_city">>]
        ELSE IF city # ""
        THEN [match_result |-> [city |-> city, country |-> extract_country(rev.raw),
                                data_source |-> "nominatim"],
              calls |-> <<"major_city", "any_city">> \o NominatimCalls(rev.attempts)]
        ELSE [match_result |-> get_geographic_region(lat, long),
              calls |-> <<"major_city", "any_city">> \o NominatimCalls(rev.attempts)
                        \o <<"geographic">>]

\* stats[...] += 1 for the tier that produced match_result
CountTier(stats, match_result) ==
    IF match_result.data_source = "geographic_region"
    THEN [stats EXCEPT !.geographic_region = @ + 1]
    ELSE IF match_result.data_source = "worldcities"
    THEN [stats EXCEPT !.worldcities_matched = @ + 1]
    ELSE IF match_result.data_source = "worldcities_small"
    THEN [stats EXCEPT !.worldcities_small = @ + 1]
    ELSE IF match_result.data_source = "worldcities_distant"
    THEN [stats EXCEPT !.worldcities_distant = @ + 1]
    ELSE IF match_result.data_source = "nominatim"
    THEN [stats EXCEPT !.nominatim_fallback = @ + 1]
    ELSE stats

(* ------------------------------ batching ------------------------------ *)

\* variant of BatchEnd: the slice runs one row into the next batch
BatchEndOverlapping(i, total_to_geocode) ==
    Min(i + geocoding_checkpoint_size + 1, total_to_geocode)

\* batch_end = min(i + geocoding_checkpoint_size, total_to_geocode)
BatchEnd(i, total_to_geocode) == Min(i + geocoding_checkpoint_size, total_to_geocode)

\* needs_geocoding.iloc[i:batch_end]
Batch(needs, i) == SubSeq(needs, i + 1, BatchEnd(i, Len(needs)))

\* variant of Combined: the rows already geocoded are left out
CombinedBatchOnly(already, batch_df) == batch_df

\* pd.concat([already_geocoded, batch_df]) when already_geocoded is not empty
Combined(already, batch_df) ==
    IF Len(already) > 0 THEN already \o batch_df ELSE batch_df

\* starting_batch, current_batch
StartingBatch(already_completed) ==
    IF already_completed > 0
    THEN (already_completed \div geocoding_checkpoint_size) + 1
    ELSE 1

ProgressInfo(combined, total_locations, stats, current_batch) ==
    [completed |-> Len(combined), total |-> total_locations,
     worldcities_matched |-> stats.worldcities_matched,
     worldcities_small |-> stats.worldcities_small,
     worldcities_distant |-> stats.worldcities_distant,
     nominatim_fallback |-> stats.nominatim_fallback,
     geographic_region |-> stats.geographic_region,
     current_batch |-> current_batch,
     matching_version |-> MATCHING_VERSION]

\* final_result[output_cols]: the columns of the full output file
OutputCols(r) == [lat |-> r.lat, long |-> r.long, city |-> r.city, country |-> r.country]

\* final_result.to_csv(simplified_path); final_result[output_cols].to_csv(full_path)
OutputFiles(final) ==
    [simplified |-> CsvFile(final),
     full |-> CsvFile([k \in DOMAIN final |-> OutputCols(final[k])])]

(* --------------------- files found at the first run ------------------- *)

\* a checkpoint left by the earlier script (MATCHING_VERSION "v2_worldcities"
\* in CleanData_MatchCities_ExpandDatesAndWeather.py): its tier 4 writes a
\* row with empty city fields and data_source 'failed'
LegacyTable ==
    << [lat |-> Stations[1].lat, long |-> Stations[1].long, city |-> "Rome",
        country |-> "Italy", data_source |-> "worldcities", ver |-> "v2_worldcities"],
       [lat |-> Stations[3].lat, long |-> Stations[3].long, city |-> "",
        country |-> "", data_source |-> "failed", ver |-> "v2_worldcities"] >>

LegacyProgress ==
    [completed |-> 2, total |-> 2, failed_count |-> 1, worldcities_matched |-> 1,
     nominatim_fallback |-> 0, current_batch |-> 1, matching_version |-> "v2_worldcities"]

\* a checkpoint whose metadata predates the version tag
UntaggedTable ==
    << [lat |-> Stations[1].lat, long |-> Stations[1].long, city |-> "Roma",
        country |-> "Italia", data_source |-> "nominatim", ver |-> "v1_nominatim"] >>

UntaggedProgress == [completed |-> 1, total |-> 1]

\* a checkpoint of the current version holding two rows for one Location
DuplicatedTable ==
    LET r == Row(Stations[1].lat, Stations[1].long,
                 ResolveRow(Stations[1].lat, Stations[1].long, 0).match_result,
                 MATCHING_VERSION)
    IN  <<r, r>>

DuplicatedProgress ==
    ProgressInfo(DuplicatedTable, 2, [EmptyStats EXCEPT !.worldcities_matched = 2], 1)

\* a checkpoint of the current version without the country column (its
\* header line was cut short, or another tool wrote the file)
CorruptedTable ==
    << [lat |-> Stations[1].lat, long |-> Stations[1].long, city |-> "Rome",
        data_source |-> "worldcities", ver |-> MATCHING_VERSION] >>

CorruptedProgress ==
    ProgressInfo(CorruptedTable, 1, [EmptyStats EXCEPT !.worldcities_matched = 1], 1)

InitialDisks ==
    { <<NoFile, NoFile>>,
      <<CsvFile(CorruptedTable), JsonFile(CorruptedProgress)>>,
      <<CsvFile(LegacyTable), JsonFile(LegacyProgress)>>,
      <<CsvFile(LegacyTable), NoFile>>,
      <<CsvFile(UntaggedTable), JsonFile(UntaggedProgress)>>,
      <<CsvFile(DuplicatedTable), JsonFile(DuplicatedProgress)>> }

\* the location sets a run may be asked to resolve: the non-empty
\* selections of the first MaxLocs stations, in table order
Requests ==
    LET first == SubSeq(Stations, 1, Min(MaxLocs, Len(Stations)))
        Pick(S) == LET In(st) == st \in S IN SelectSeq(first, In)
    IN  {Pick(S) : S \in (SUBSET Range(first)) \ {{}}}

(* ------------------------------- state -------------------------------- *)

VARIABLES
    unique_locs,        \* the requested Locations (argument of every run)
    worldcities_csv,    \* "present" or "absent": the file at WORLDCITIES_PATH
    checkpoint_csv,     \* file geocoding_checkpoint.csv
    progress_json,      \* file geocoding_progress.json
    output_files,       \* the final output files (simplified and full data)
    pc,                 \* where the running process is; "idle" when none runs
    entry,              \* how the current run started (what load found)
    existing_geocoded,  \* the table load_geocoding_progress returned, or <<>>
    needs_geocoding,
    already_geocoded,
    already_completed,
    i,                  \* loop variable of the batch loop
    batch_results,
    stats,
    final_result,       \* the returned table, once the run has returned
    calls,              \* tier calls of this run, per resolved Location, and
                        \* how many of its geocoder calls raised
    last_append,        \* the two files as the last completed save left them
    resolved_ever,      \* Locations resolved by some run so far
    clean_history,      \* no stale file, no mid-batch interruption, and the
                        \* geocoder never gave up on a place it knows
    m_table,            \* the city table (df_cities) shared by the calls of
                        \* match_station_to_major_city, with the distance
                        \* column once a call has assigned it
    m_radii,            \* <<primary_radius_km, fallback_radius_km>>
    m_call,             \* per caller: its arguments, position and result
    a_weather,          \* df_weather: the measurement table (long format)
    a_geocoded,         \* unique_locs: the resolution results handed to the merge
    a_pc,               \* where the aggregation is
    a_enriched,         \* df_enriched returned by merge_with_original
    a_pivot,            \* df_pivot as pivot_table returns it
    a_output,           \* df_pivot as pivot_and_clean_data returns it
    g_point,            \* the arguments of a call of get_geographic_region
    g_pc,               \* "called" or "returned"
    g_result,           \* the dict it returned, or <<>>
    b_files,            \* per batch number: the data file and the metadata file
    b_weather,          \* per batch number: the rows of df_batch_cleaned
    b_pc,               \* where the batch loop of main is; "idle" when none runs
    b_idx,              \* batch_idx
    b_force,            \* args.force_reprocess_batch of the running process
    b_torn,             \* the batches whose last save was interrupted before
                        \* its metadata was written
    l_locs,             \* the earlier script: unique_locs, the requested Locations
    l_checkpoint,       \* its file geocoding_checkpoint.csv
    l_pc,               \* where its running process is; "idle" when none runs
    l_needs_geocoding,
    l_already_geocoded,
    l_already_completed,
    l_i,
    l_batch_results,
    l_assigned_cities,  \* assigned_cities of the running process
    l_final_result      \* the table it returned

pipeline == <<unique_locs, worldcities_csv, checkpoint_csv, progress_json, output_files, pc, entry,
              existing_geocoded, needs_geocoding, already_geocoded, already_completed,
              i, batch_results, stats, final_result, calls, last_append,
              resolved_ever, clean_history>>

matcher == <<m_table, m_radii, m_call>>

aggregator == <<a_weather, a_geocoded, a_pc, a_enriched, a_pivot, a_output>>

region == <<g_point, g_pc, g_result>>

batches == <<b_files, b_weather, b_pc, b_idx, b_force, b_torn>>

legacy == <<l_locs, l_checkpoint, l_pc, l_needs_geocoding, l_already_geocoded,
            l_already_completed, l_i, l_batch_results, l_assigned_cities,
            l_final_result>>

\* the state of the components the pipeline run does not touch
other_components == <<matcher, aggregator, region, batches, legacy>>

\* the same for the matcher, the aggregation and the region call
beside_matcher == <<pipeline, aggregator, region, batches, legacy>>

beside_aggregator == <<pipeline, matcher, region, batches, legacy>>

beside_region == <<pipeline, matcher, aggregator, batches, legacy>>

beside_batches == <<pipeline, matcher, aggregator, region, legacy>>

beside_legacy == <<pipeline, matcher, aggregator, region, batches>>

vars == <<pipeline, matcher, aggregator, region, batches, legacy>>

\* the arguments of a run: the request and the reference city file
inputs == <<unique_locs, worldcities_csv>>

disk == <<checkpoint_csv, progress_json>>

volatile == <<entry, existing_geocoded, needs_geocoding, already_geocoded,
              already_completed, i, batch_results, stats, final_result, calls>>

ghosts == <<last_append, resolved_ever, clean_history>>

Key(r) == [lat |-> r.lat, long |-> r.long]

Keys(df) == [k \in DOMAIN df |-> Key(df[k])]

\* the callers of the matcher
Callers == {1, 2}

\* no call of the matcher under way
MatcherIdle ==
    /\ m_table = <<>>
    /\ m_radii = <<SEARCH_RADIUS_KM_PRIMARY, SEARCH_RADIUS_KM_FALLBACK>>
    /\ m_call = [t \in Callers |-> [pc |-> "idle"]]

\* no aggregation under way
AggregatorIdle ==
    /\ a_weather = <<>>
    /\ a_geocoded = <<>>
    /\ a_pc = "idle"
    /\ a_enriched = <<>>
    /\ a_pivot = {}
    /\ a_output = {}

\* the batch numbers of a run
BatchNums == 1..MaxBatches

\* no batch loop under way, no batch directory
BatchesIdle ==
    /\ b_files = [b \in BatchNums |-> [csv |-> NoFile, metadata |-> NoFile]]
    /\ b_weather = [b \in BatchNums |-> 0]
    /\ b_pc = "idle"
    /\ b_idx = 0
    /\ b_force = {}
    /\ b_torn = {}

\* the earlier script is not run
LegacyIdle ==
    /\ l_locs = <<>>
    /\ l_checkpoint = NoFile
    /\ l_pc = "idle"
    /\ l_needs_geocoding = <<>>
    /\ l_already_geocoded = <<>>
    /\ l_already_completed = 0
    /\ l_i = 0
    /\ l_batch_results = <<>>
    /\ l_assigned_cities = {}
    /\ l_final_result = <<>>

\* no call of get_geographic_region under way
RegionIdle ==
    /\ g_point = [lat |-> 0, long |-> 0]
    /\ g_pc = "idle"
    /\ g_result = <<>>

Init ==
    /\ MatcherIdle
    /\ AggregatorIdle
    /\ RegionIdle
    /\ BatchesIdle
    /\ LegacyIdle
    /\ unique_locs \in Requests
    /\ worldcities_csv \in {"present", "absent"}
    /\ \E d \in InitialDisks :
          /\ checkpoint_csv = d[1]
          /\ progress_json = d[2]
          /\ last_append = d
          /\ clean_history = (d = <<NoFile, NoFile>>)
    /\ output_files = [simplified |-> NoFile, full |-> NoFile]
    /\ pc = "idle"
    /\ entry = "none"
    /\ existing_geocoded = <<>>
    /\ needs_geocoding = <<>>
    /\ already_geocoded = <<>>
    /\ already_completed = 0
    /\ i = 0
    /\ batch_results = <<>>
    /\ stats = EmptyStats
    /\ final_result = <<>>
    /\ calls = <<>>
    /\ resolved_ever = {}

(* ------------------------- starting a run ----------------------------- *)

\* a run starts when no process is running: the first run, a restart after
\* an interruption, or a new run after the previous one ended
CanStart == pc \in {"idle", "returned", "aborted"}

Loaded == load_geocoding_progress(checkpoint_csv, progress_json)

Merged == LeftMerge(unique_locs, Loaded.df[1])

\* why load_geocoding_progress returned None
NoneReason ==
    IF checkpoint_csv = NoFile THEN "no_checkpoint" ELSE "version_mismatch"

\* read_csv or json.load raises on a truncated file: the run ends with the
\* exception, nothing is written
StartReadError ==
    /\ CanStart
    /\ Loaded.raised
    /\ pc' = "aborted"
    /\ entry' = "read_error"
    /\ existing_geocoded' = <<>>
    /\ needs_geocoding' = <<>>
    /\ already_geocoded' = <<>>
    /\ already_completed' = 0
    /\ i' = 0
    /\ batch_results' = <<>>
    /\ stats' = EmptyStats
    /\ final_result' = <<>>
    /\ calls' = <<>>
    /\ UNCHANGED <<other_components, inputs, output_files, disk, ghosts>>

\* variant of WorldcitiesFound: the existence of the file is not checked
WorldcitiesNotChecked == TRUE

\* load_worldcities finds the file at WORLDCITIES_PATH
WorldcitiesFound == worldcities_csv = "present"

\* the run has rows to resolve and load_worldcities raises FileNotFoundError:
\* the run ends with the exception, nothing is resolved or written
StartWorldcitiesMissing ==
    /\ CanStart
    /\ ~Loaded.raised
    /\ \/ Loaded.df = <<>>
       \/ /\ Loaded.df # <<>>
          /\ missing_cols(Loaded.df[1]) # {}
       \/ /\ Loaded.df # <<>>
          /\ missing_cols(Loaded.df[1]) = {}
          /\ ~RowCountChanged(Merged, unique_locs)
          /\ Len(NeedsGeocoding(Merged)) # 0
    /\ ~WorldcitiesFound
    /\ pc' = "aborted"
    /\ entry' = "worldcities_missing"
    /\ existing_geocoded' = Loaded.df
    /\ needs_geocoding' = <<>>
    /\ already_geocoded' = <<>>
    /\ already_completed' = 0
    /\ i' = 0
    /\ batch_results' = <<>>
    /\ stats' = EmptyStats
    /\ final_result' = <<>>
    /\ calls' = <<>>
    /\ UNCHANGED <<other_components, inputs, output_files, disk, ghosts>>

\* the checkpoint lacks a required column: existing_geocoded is set to None
\* (line 414) and the assignments of needs_geocoding and already_geocoded, in
\* the else branches of lines 415 and 469, are both skipped; after
\* load_worldcities, len(needs_geocoding) at line 542 raises UnboundLocalError
StartCorrupted ==
    /\ CanStart
    /\ ~Loaded.raised
    /\ Loaded.df # <<>>
    /\ missing_cols(Loaded.df[1]) # {}
    /\ WorldcitiesFound
    /\ pc' = "aborted"
    /\ entry' = "unbound_needs_geocoding"
    /\ existing_geocoded' = <<>>
    /\ needs_geocoding' = <<>>
    /\ already_geocoded' = <<>>
    /\ already_completed' = 0
    /\ i' = 0
    /\ batch_results' = <<>>
    /\ stats' = EmptyStats
    /\ final_result' = <<>>
    /\ calls' = <<>>
    /\ UNCHANGED <<other_components, inputs, output_files, disk, ghosts>>

\* existing_geocoded is None: every requested Location needs geocoding
StartFresh ==
    /\ CanStart
    /\ ~Loaded.raised
    /\ Loaded.df = <<>>
    /\ WorldcitiesFound
    /\ pc' = "batch"
    /\ entry' = NoneReason
    /\ existing_geocoded' = <<>>
    /\ needs_geocoding' = unique_locs
    /\ already_geocoded' = <<>>
    /\ already_completed' = 0
    /\ i' = 0
    /\ batch_results' = <<>>
    /\ stats' = EmptyStats
    /\ final_result' = <<>>
    /\ calls' = <<>>
    /\ UNCHANGED <<other_components, inputs, output_files, disk, ghosts>>

\* the merge changed the row count: ValueError, before anything is resolved
StartIntegrityError ==
    /\ CanStart
    /\ ~Loaded.raised
    /\ Loaded.df # <<>>
    /\ missing_cols(Loaded.df[1]) = {}
    /\ RowCountChanged(Merged, unique_locs)
    /\ pc' = "aborted"
    /\ entry' = "integrity_error"
    /\ existing_geocoded' = Loaded.df
    /\ needs_geocoding' = <<>>
    /\ already_geocoded' = <<>>
    /\ already_completed' = 0
    /\ i' = 0
    /\ batch_results' = <<>>
    /\ stats' = EmptyStats
    /\ final_result' = <<>>
    /\ calls' = <<>>
    /\ UNCHANGED <<other_components, inputs, output_files, disk, ghosts>>

\* variant of StartComplete: the run goes through zero batches and the final
\* save, rewriting the checkpoint and the output files
StartCompleteRewriting ==
    /\ CanStart
    /\ ~Loaded.raised
    /\ Loaded.df # <<>>
    /\ missing_cols(Loaded.df[1]) = {}
    /\ ~RowCountChanged(Merged, unique_locs)
    /\ Len(NeedsGeocoding(Merged)) = 0
    /\ pc' = "returned"
    /\ entry' = "complete"
    /\ existing_geocoded' = Loaded.df
    /\ needs_geocoding' = NeedsGeocoding(Merged)
    /\ already_geocoded' = AlreadyGeocoded(Merged)
    /\ already_completed' = 0
    /\ i' = 0
    /\ batch_results' = <<>>
    /\ stats' = EmptyStats
    /\ final_result' = Merged
    /\ calls' = <<>>
    /\ checkpoint_csv' = CsvFile(Merged)
    /\ progress_json' = JsonFile(ProgressInfo(Merged, Len(unique_locs), EmptyStats, 1))
    /\ output_files' = OutputFiles(Merged)
    /\ UNCHANGED <<other_components, inputs, ghosts>>

\* all locations already geocoded: return unique_locs (the merged table)
StartComplete ==
    /\ CanStart
    /\ ~Loaded.raised
    /\ Loaded.df # <<>>
    /\ missing_cols(Loaded.df[1]) = {}
    /\ ~RowCountChanged(Merged, unique_locs)
    /\ Len(NeedsGeocoding(Merged)) = 0
    /\ pc' = "returned"
    /\ entry' = "complete"
    /\ existing_geocoded' = Loaded.df
    /\ needs_geocoding' = NeedsGeocoding(Merged)
    /\ already_geocoded' = AlreadyGeocoded(Merged)
    /\ already_completed' = 0
    /\ i' = 0
    /\ batch_results' = <<>>
    /\ stats' = EmptyStats
    /\ final_result' = Merged
    /\ calls' = <<>>
    /\ UNCHANGED <<other_components, inputs, output_files, disk, ghosts>>

\* resuming: only the rows without a city enter the batch loop
StartResume ==
    /\ CanStart
    /\ ~Loaded.raised
    /\ Loaded.df # <<>>
    /\ missing_cols(Loaded.df[1]) = {}
    /\ ~RowCountChanged(Merged, unique_locs)
    /\ Len(NeedsGeocoding(Merged)) # 0
    /\ WorldcitiesFound
    /\ pc' = "batch"
    /\ entry' = "resume"
    /\ existing_geocoded' = Loaded.df
    /\ needs_geocoding' = Keys(NeedsGeocoding(Merged))
    /\ already_geocoded' = AlreadyGeocoded(Merged)
    /\ already_completed' = Len(AlreadyGeocoded(Merged))
    /\ i' = 0
    /\ batch_results' = <<>>
    /\ stats' = EmptyStats
    /\ final_result' = <<>>
    /\ calls' = <<>>
    /\ UNCHANGED <<other_components, inputs, output_files, disk, ghosts>>

(* --------------------------- the batch loop --------------------------- *)

CurrentBatch == Batch(needs_geocoding, i)

\* one iteration of `for idx, row in batch.iterrows()`
ResolveNext ==
    /\ pc = "batch"
    /\ Len(batch_results) < Len(CurrentBatch)
    /\ \E raising \in 0..max_retries :
          LET row == CurrentBatch[Len(batch_results) + 1]
              res == ResolveRow(row.lat, row.long, raising)
              gave_up == /\ raising >= max_retries
                         /\ "nominatim" \in Range(res.calls)
                         /\ NominatimAnswer(row.lat, row.long) # <<>>
          IN  /\ batch_results' = Append(batch_results,
                     Row(row.lat, row.long, res.match_result, MATCHING_VERSION))
              /\ stats' = CountTier(stats, res.match_result)
              /\ calls' = Append(calls, [lat |-> row.lat, long |-> row.long,
                                         tiers |-> res.calls,
                                         raised |-> IF "nominatim" \in Range(res.calls)
                                                    THEN raising ELSE 0])
              /\ resolved_ever' = resolved_ever \cup {Key(row)}
              /\ clean_history' = (clean_history /\ ~gave_up)
    /\ UNCHANGED <<other_components, inputs, output_files, disk, pc, entry, existing_geocoded, needs_geocoding,
                   already_geocoded, already_completed, i, final_result, last_append>>

\* variant of BatchDone: only a batch of full size is handed to the save
BatchDoneFullOnly == pc = "batch" /\ Len(batch_results) = geocoding_checkpoint_size

\* the row loop of the batch has ended
BatchDone == pc = "batch" /\ Len(batch_results) = Len(CurrentBatch)

\* save_geocoding_checkpoint, first write: df.to_csv(checkpoint_path)
SaveCheckpointCsv ==
    /\ BatchDone
    /\ checkpoint_csv' = CsvFile(Combined(already_geocoded, batch_results))
    /\ pc' = "save_progress"
    /\ UNCHANGED <<other_components, inputs, output_files, progress_json, volatile, ghosts>>

\* save_geocoding_checkpoint, second write: json.dump(progress_info), then
\* already_geocoded = combined and the next iteration of the batch loop
SaveProgressJson ==
    /\ pc = "save_progress"
    /\ LET combined == Combined(already_geocoded, batch_results)
           current_batch == StartingBatch(already_completed)
                            + (i \div geocoding_checkpoint_size)
       IN  /\ progress_json' = JsonFile(ProgressInfo(combined, Len(unique_locs),
                                                     stats, current_batch))
           /\ already_geocoded' = combined
           /\ last_append' = <<checkpoint_csv, progress_json'>>
    /\ i' = i + geocoding_checkpoint_size
    /\ batch_results' = <<>>
    /\ pc' = IF i' < Len(needs_geocoding) THEN "batch" ELSE "final"
    /\ UNCHANGED <<other_components, inputs, output_files, checkpoint_csv, entry, existing_geocoded,
                   needs_geocoding, already_completed, stats, final_result, calls,
                   resolved_ever, clean_history>>

\* after the loop: final_result = already_geocoded is written to the two
\* final output files and returned to the caller
FinalSave ==
    /\ pc = "final"
    /\ final_result' = already_geocoded
    /\ output_files' = OutputFiles(already_geocoded)
    /\ pc' = "returned"
    /\ UNCHANGED <<other_components, inputs, disk, entry, existing_geocoded, needs_geocoding,
                   already_geocoded, already_completed, i, batch_results, stats,
                   calls, ghosts>>

(* ---------------------------- interruption ---------------------------- *)

\* the process is gone: nothing of its memory survives
ProcessGone ==
    /\ pc' = "idle"
    /\ entry' = "none"
    /\ existing_geocoded' = <<>>
    /\ needs_geocoding' = <<>>
    /\ already_geocoded' = <<>>
    /\ already_completed' = 0
    /\ i' = 0
    /\ batch_results' = <<>>
    /\ stats' = EmptyStats
    /\ final_result' = <<>>
    /\ calls' = <<>>

\* the run is interrupted (killed, power loss) while no file is being written
Interrupt ==
    /\ pc \in {"batch", "save_progress", "final"}
    /\ ProcessGone
    /\ clean_history' = (clean_history /\ pc # "save_progress"
                                       /\ batch_results = <<>>)
    /\ UNCHANGED <<other_components, inputs, output_files, disk, last_append, resolved_ever>>

\* a row cut short by the end of the file: read_csv fills the missing
\* trailing columns (data_source is the last one) with NaN
TornRow(r) == [r EXCEPT !.country = NaN, !.data_source = NaN]

\* what an interrupted df.to_csv can leave: open(path, 'w') truncates the
\* file, the rows reach it buffer by buffer
TornCsv(table) ==
    {EmptyFile}
    \cup {CsvFile(SubSeq(table, 1, n)) : n \in 0..(Len(table) - 1)}
    \cup {CsvFile(Append(SubSeq(table, 1, n), TornRow(table[n + 1]))) :
             n \in 0..(Len(table) - 1)}

\* the run is interrupted inside df.to_csv(checkpoint_path)
InterruptCsvWrite ==
    /\ BatchDone
    /\ checkpoint_csv' \in TornCsv(Combined(already_geocoded, batch_results))
    /\ ProcessGone
    /\ clean_history' = FALSE
    /\ UNCHANGED <<other_components, inputs, output_files, progress_json, last_append, resolved_ever>>

\* the run is interrupted inside json.dump: open(path, 'w') has truncated the
\* file and the object (smaller than a buffer) has not reached it
InterruptJsonWrite ==
    /\ pc = "save_progress"
    /\ progress_json' = EmptyFile
    /\ ProcessGone
    /\ clean_history' = FALSE
    /\ UNCHANGED <<other_components, inputs, output_files, checkpoint_csv, last_append, resolved_ever>>

Next ==
    \/ StartReadError
    \/ StartFresh
    \/ StartIntegrityError
    \/ StartWorldcitiesMissing
    \/ StartCorrupted
    \/ StartComplete
    \/ StartResume
    \/ ResolveNext
    \/ SaveCheckpointCsv
    \/ SaveProgressJson
    \/ FinalSave
    \/ Interrupt
    \/ InterruptCsvWrite
    \/ InterruptJsonWrite

Spec == Init /\ [][Next]_vars

\* the steps of a process that is never interrupted: the files it finds were
\* left by completed saves, so no read fails
NextUninterrupted ==
    \/ StartFresh
    \/ StartIntegrityError
    \/ StartWorldcitiesMissing
    \/ StartCorrupted
    \/ StartComplete
    \/ StartResume
    \/ ResolveNext
    \/ SaveCheckpointCsv
    \/ SaveProgressJson
    \/ FinalSave

\* a started process keeps running: each call to the geocoder returns or
\* raises, each write completes, so the next step of the run is always taken
SpecUninterrupted == Init /\ [][NextUninterrupted]_vars /\ WF_vars(NextUninterrupted)

(* ------------------------- the matcher alone -------------------------- *)

\* no pipeline run: nothing requested, no file, no process
PipelineIdle ==
    /\ unique_locs = <<>>
    /\ worldcities_csv = "present"
    /\ checkpoint_csv = NoFile
    /\ progress_json = NoFile
    /\ output_files = [simplified |-> NoFile, full |-> NoFile]
    /\ pc = "idle"
    /\ entry = "none"
    /\ existing_geocoded = <<>>
    /\ needs_geocoding = <<>>
    /\ already_geocoded = <<>>
    /\ already_completed = 0
    /\ i = 0
    /\ batch_results = <<>>
    /\ stats = EmptyStats
    /\ final_result = <<>>
    /\ calls = <<>>
    /\ last_append = <<NoFile, NoFile>>
    /\ resolved_ever = {}
    /\ clean_history = TRUE

\* the rows city tables are made of: the world table and two more cities on
\* the same meridian
MatcherCities ==
    WorldCities \o
    << [city |-> "Frascati", country |-> "Italy",   lat |-> 41810, long |-> 12500,
        population |-> 38000,  id |-> "1380000002"],
       [city |-> "Salzburg", country |-> "Austria", lat |-> 47300, long |-> 12500,
        population |-> 150000, id |-> "1040000003"] >>

\* the city tables: the selections of the first MaxCities rows, in order
CityTables ==
    LET pool == SubSeq(MatcherCities, 1, Min(MaxCities, Len(MatcherCities)))
        Pick(S) == LET In(c) == c \in S IN SelectSeq(pool, In)
    IN  {Pick(S) : S \in SUBSET Range(pool)}

\* station sites on the meridian of the cities
MatchPoints ==
    { [lat |-> 41800, long |-> 12500],      \* Rome, Ciampino at 11.1 km, Frascati at 1.1 km
      [lat |-> 41680, long |-> 12500],      \* Ciampino at 2.2 km, Frascati at 14.4 km, Rome at 24.4 km
      [lat |-> 47100, long |-> 12500] }     \* Smallville, Hamlet at 11.1 km, Salzburg at 22.2 km

\* station_country: none, a country with cities, a country without
CountryHints == {"", "Italy", "France"}

RadiiPairs == { <<SEARCH_RADIUS_KM_PRIMARY, SEARCH_RADIUS_KM_FALLBACK>>, <<10, 20>> }

MatchInit ==
    /\ PipelineIdle
    /\ AggregatorIdle
    /\ RegionIdle
    /\ BatchesIdle
    /\ LegacyIdle
    /\ m_table \in CityTables
    /\ m_radii \in RadiiPairs
    /\ m_call \in [Callers -> [pc : {"called"}, point : MatchPoints,
                                station_country : CountryHints]]

\* lines 274-284: df_cities['distance'] = 6371 * c, assigned on the table
\* the caller passed
AssignDistance(t) ==
    /\ m_call[t].pc = "called"
    /\ m_table' = WithDistance(m_call[t].point.lat, m_call[t].point.long, m_table)
    /\ m_call' = [m_call EXCEPT ![t] = [@ EXCEPT !.pc = "distance_assigned"]]
    /\ UNCHANGED <<beside_matcher, m_radii>>

\* lines 286-326: the candidates are copied from the table as it is now
\* (distance column included), filtered, ranked, and the top row returned
FilterAndReturn(t) ==
    /\ m_call[t].pc = "distance_assigned"
    /\ m_call' = [m_call EXCEPT ![t] =
                    [pc |-> "done", point |-> @.point,
                     station_country |-> @.station_country,
                     result |-> SelectAndRank(m_table, m_radii[1], m_radii[2],
                                              @.station_country)]]
    /\ UNCHANGED <<beside_matcher, m_table, m_radii>>

\* one call run from its first line to its return with no other call
\* running in between
MatchAlone(t) ==
    /\ m_call[t].pc = "called"
    /\ m_table' = WithDistance(m_call[t].point.lat, m_call[t].point.long, m_table)
    /\ m_call' = [m_call EXCEPT ![t] =
                    [pc |-> "done", point |-> @.point,
                     station_country |-> @.station_country,
                     result |-> match_station_to_major_city(
                                    @.point.lat, @.point.long, m_table,
                                    m_radii[1], m_radii[2], @.station_country)]]
    /\ UNCHANGED <<beside_matcher, m_radii>>

NextMatch == \E t \in Callers : MatchAlone(t)

\* calls made one after the other, as the batch loop makes them
SpecMatch == MatchInit /\ [][NextMatch]_vars

NextMatchConcurrent ==
    \/ \E t \in Callers : AssignDistance(t)
    \/ \E t \in Callers : FilterAndReturn(t)

\* two calls on one table running on two threads
SpecMatchConcurrent == MatchInit /\ [][NextMatchConcurrent]_vars

(* --------------------------- the aggregation -------------------------- *)

\* merge_data.drop_duplicates(subset=['lat', 'long'], keep='first')
DropDuplicates(merge_data) ==
    LET First(k) == \A j \in 1..(k - 1) : Key(merge_data[j]) # Key(merge_data[k])
        kept == {k \in DOMAIN merge_data : First(k)}
        Nth(n) == CHOOSE k \in kept : Cardinality({j \in kept : j < k}) = n - 1
    IN  [n \in 1..Cardinality(kept) |-> merge_data[Nth(n)]]

\* a measurement row with the location columns of a result row; the columns
\* are NaN when the row has no partner in the join
Enriched(w, city, country, state, suburb, worldcities_id, data_source) ==
    [id |-> w.id, name |-> w.name, lat |-> w.lat, long |-> w.long, date |-> w.date,
     data_type |-> w.data_type, value |-> w.value,
     city |-> city, country |-> country, state |-> state, suburb |-> suburb,
     worldcities_id |-> worldcities_id, data_source |-> data_source]

\* pd.merge(df_weather, merge_data, on=['lat', 'long'], how='left')
RECURSIVE MergeLeft(_, _)
MergeLeft(df_weather, merge_data) ==
    IF df_weather = <<>> THEN <<>>
    ELSE LET w == Head(df_weather)
             SameKey(r) == Key(r) = Key(w)
             hits == SelectSeq(merge_data, SameKey)
         IN (IF hits = <<>>
             THEN << Enriched(w, NaN, NaN, NaN, NaN, NaN, NaN) >>
             ELSE [k \in DOMAIN hits |->
                      Enriched(w, hits[k].city, hits[k].country, hits[k].state,
                               hits[k].suburb, hits[k].worldcities_id,
                               hits[k].data_source)])
            \o MergeLeft(Tail(df_weather), merge_data)

\* merge_with_original: raised is TRUE when the ValueError of the row count
\* check is raised, df is df_enriched otherwise
merge_with_original(df_weather, geocoded) ==
    LET original_row_count == Len(df_weather)
        merge_data == DropDuplicates(geocoded)
        df_enriched == MergeLeft(df_weather, merge_data)
    IN  IF Len(df_enriched) # original_row_count
        THEN [raised |-> TRUE, df |-> <<>>]
        ELSE [raised |-> FALSE, df |-> df_enriched]

\* df[col].fillna('') on the index columns
FillNa(x) == IF x = NaN THEN "" ELSE x

\* index_cols: base_index and the metadata columns of additional_index
IndexCols(r) ==
    [city |-> FillNa(r.city), country |-> FillNa(r.country), state |-> FillNa(r.state),
     suburb |-> FillNa(r.suburb), date |-> r.date,
     worldcities_id |-> FillNa(r.worldcities_id), data_source |-> FillNa(r.data_source)]

RECURSIVE SumValues(_, _)
SumValues(df, S) ==
    IF S = {} THEN 0
    ELSE LET k == CHOOSE j \in S : TRUE
         IN  df[k].value + SumValues(df, S \ {k})

\* an empty cell of the pivot (NaN in a numeric column)
NoValue == [sum |-> 0, n |-> 0]

\* aggfunc='mean' over the rows S of df: the mean is kept as the exact
\* fraction sum / n; the cell is empty when no row contributes
MeanOf(df, S) ==
    IF S = {} THEN NoValue ELSE [sum |-> SumValues(df, S), n |-> Cardinality(S)]

\* df.pivot_table(index=index_cols, columns='data_type', values='value',
\* aggfunc='mean'): one row per combination of index values, one column per
\* data_type occurring in df
PivotTable(df) ==
    LET columns == {df[k].data_type : k \in DOMAIN df}
        groups == {IndexCols(df[k]) : k \in DOMAIN df}
        Cell(g, ty) == {k \in DOMAIN df : IndexCols(df[k]) = g /\ df[k].data_type = ty}
    IN  { [index |-> g, values |-> [ty \in columns |-> MeanOf(df, Cell(g, ty))]] :
            g \in groups }

\* x / y rounded to the nearest integer, a tie goes to the even one (y > 0)
RoundDiv(x, y) ==
    LET q == x \div y
        r == x % y
    IN  IF 2 * r < y THEN q
        ELSE IF 2 * r > y THEN q + 1
        ELSE IF q % 2 = 0 THEN q ELSE q + 1

\* a column divided by 100 instead of 10
div100_round2(cell) ==
    IF cell = NoValue THEN NoValue
    ELSE [sum |-> RoundDiv(cell.sum, cell.n), n |-> 100]

\* df_pivot[col].div(10).round(2): the result is a whole number of hundredths
div10_round2(cell) ==
    IF cell = NoValue THEN NoValue
    ELSE [sum |-> RoundDiv(10 * cell.sum, cell.n), n |-> 100]

RECURSIVE SumOver(_, _)
SumOver(column, S) ==
    IF S = {} THEN 0
    ELSE LET k == CHOOSE j \in S : TRUE
         IN  column[k] + SumOver(column, S \ {k})

\* df.groupby(index_cols)[['lat', 'long']].mean(): the mean over the rows of
\* df that belong to the group g
coords_mean(df, g) ==
    LET rows == {k \in DOMAIN df : IndexCols(df[k]) = g}
    IN  [lat |-> [sum |-> SumOver([k \in DOMAIN df |-> df[k].lat], rows),
                  n |-> Cardinality(rows)],
         long |-> [sum |-> SumOver([k \in DOMAIN df |-> df[k].long], rows),
                   n |-> Cardinality(rows)]]

\* TMIN + 0.44 * (TMAX - TMIN) on two means kept as fractions
ImputedTavg(tmin, tmax) ==
    [sum |-> 100 * tmin.sum * tmax.n + 44 * (tmax.sum * tmin.n - tmin.sum * tmax.n),
     n |-> 100 * tmin.n * tmax.n]

\* the filling of TAVG: only when the table has the three temperature
\* columns, only where TAVG is empty; the result is empty when TMIN or TMAX is
FillTavg(values) ==
    IF {"TAVG", "TMAX", "TMIN"} \subseteq DOMAIN values
    THEN [values EXCEPT !["TAVG"] =
            IF @ # NoValue THEN @
            ELSE IF values["TMIN"] = NoValue \/ values["TMAX"] = NoValue THEN NoValue
            ELSE ImputedTavg(values["TMIN"], values["TMAX"])]
    ELSE values

\* the columns converted from tenths of a unit
ConvertedCols == {"TMAX", "TMIN", "TAVG", "PRCP", "SNWD"}

ConvertUnits(values) ==
    [ty \in DOMAIN values |->
        IF ty \in ConvertedCols THEN div10_round2(values[ty]) ELSE values[ty]]

\* pivot_and_clean_data(df): the rows of the pivot with the representative
\* coordinates, TAVG filled and the units converted; df has no population
\* column, and the dates are held in their formatted form throughout
pivot_and_clean_data(df) ==
    { [index |-> row.index,
       lat |-> coords_mean(df, row.index).lat,
       long |-> coords_mean(df, row.index).long,
       values |-> ConvertUnits(FillTavg(row.values))] : row \in PivotTable(df) }

\* the measurement rows: station S1 and S2 lie in Rome, S3 far from any city;
\* values are in tenths of a unit, SNOW is a column that is not rescaled
MeasurementPool ==
    << [id |-> "S1", name |-> "ROMA URBE", lat |-> 41800, long |-> 12500,
        date |-> "2020-01-01", data_type |-> "TMAX", value |-> 100],
       [id |-> "S2", name |-> "ROMA CIAMPINO", lat |-> 41810, long |-> 12500,
        date |-> "2020-01-01", data_type |-> "TMAX", value |-> 200],
       [id |-> "S2", name |-> "ROMA CIAMPINO", lat |-> 41810, long |-> 12500,
        date |-> "2020-01-01", data_type |-> "TMIN", value |-> 50],
       [id |-> "S1", name |-> "ROMA URBE", lat |-> 41800, long |-> 12500,
        date |-> "2020-01-01", data_type |-> "TAVG", value |-> 293],
       [id |-> "S3", name |-> "TURA", lat |-> 64000, long |-> 100000,
        date |-> "2020-01-01", data_type |-> "SNOW", value |-> 7],
       [id |-> "S1", name |-> "ROMA URBE", lat |-> 41800, long |-> 12500,
        date |-> "2020-01-02", data_type |-> "PRCP", value |-> 15],
       [id |-> "S3", name |-> "TURA", lat |-> 64000, long |-> 100000,
        date |-> "2020-01-01", data_type |-> "SNWD", value |-> 120],
       [id |-> "S3", name |-> "TURA", lat |-> 64000, long |-> 100000,
        date |-> "2020-01-01", data_type |-> "TMAX", value |-> -300] >>

\* the resolution result rows: S1 and S2 both resolved to Rome, by the same
\* tier or by different tiers; a second row for the site of S1
ResultPool ==
    << [lat |-> 41800, long |-> 12500, city |-> "Rome", country |-> "Italy",
        state |-> "Lazio", suburb |-> "", worldcities_id |-> "1380382862",
        data_source |-> "worldcities"],
       [lat |-> 41810, long |-> 12500, city |-> "Rome", country |-> "Italy",
        state |-> "Lazio", suburb |-> "", worldcities_id |-> "",
        data_source |-> "nominatim"],
       [lat |-> 64000, long |-> 100000, city |-> "Tura", country |-> "Russia",
        state |-> "Krasnoyarsk Krai", suburb |-> "", worldcities_id |-> "",
        data_source |-> "nominatim"],
       [lat |-> 41800, long |-> 12500, city |-> "Ciampino", country |-> "Italy",
        state |-> "Lazio", suburb |-> "", worldcities_id |-> "1380000001",
        data_source |-> "worldcities_small"],
       [lat |-> 41810, long |-> 12500, city |-> "Rome", country |-> "Italy",
        state |-> "Lazio", suburb |-> "", worldcities_id |-> "1380382862",
        data_source |-> "worldcities"],
       [lat |-> 64000, long |-> 100000, city |-> "Remote Northern Region",
        country |-> "Remote Area", state |-> "", suburb |-> "",
        worldcities_id |-> "", data_source |-> "geographic_region"] >>

\* the selections of the first n rows of a pool, in order
Selections(pool, n) ==
    LET first == SubSeq(pool, 1, Min(n, Len(pool)))
        Pick(S) == LET In(r) == r \in S IN SelectSeq(first, In)
    IN  {Pick(S) : S \in SUBSET Range(first)}

AggregateInit ==
    /\ PipelineIdle
    /\ MatcherIdle
    /\ RegionIdle
    /\ BatchesIdle
    /\ LegacyIdle
    /\ a_weather \in Selections(MeasurementPool, MaxMeasurements) \ {<<>>}
    /\ a_geocoded \in Selections(ResultPool, MaxResults)
    /\ a_pc = "start"
    /\ a_enriched = <<>>
    /\ a_pivot = {}
    /\ a_output = {}

\* merge_with_original(df_weather, unique_locs): the second argument is a_geocoded
MergeWithOriginal ==
    /\ a_pc = "start"
    /\ LET merged == merge_with_original(a_weather, a_geocoded)
       IN  /\ a_pc' = IF merged.raised THEN "join_error" ELSE "merged"
           /\ a_enriched' = merged.df
    /\ UNCHANGED <<beside_aggregator, a_weather, a_geocoded, a_pivot, a_output>>

\* pivot_and_clean_data(df_enriched): a_pivot keeps the table as it is after
\* the pivot of lines 190-195, a_output is the table returned
PivotAndClean ==
    /\ a_pc = "merged"
    /\ a_pivot' = PivotTable(a_enriched)
    /\ a_output' = pivot_and_clean_data(a_enriched)
    /\ a_pc' = "pivoted"
    /\ UNCHANGED <<beside_aggregator, a_weather, a_geocoded, a_enriched>>

NextAggregate ==
    \/ MergeWithOriginal
    \/ PivotAndClean

SpecAggregate == AggregateInit /\ [][NextAggregate]_vars

(* ------------------- the geographic fallback alone -------------------- *)

\* latitudes and longitudes on, next to and between the band boundaries, in
\* thousandths of a degree
RegionLats ==
    {-90000, -66501, -66500, -66499, -30001, -30000, -29999, -1, 0, 1,
     29999, 30000, 30001, 66499, 66500, 66501, 90000}

RegionLongs ==
    {-180000, -179999, -90001, -90000, -89999, -30001, -30000, -29999, 0,
     59999, 60000, 60001, 179999, 180000}

RegionInit ==
    /\ PipelineIdle
    /\ MatcherIdle
    /\ AggregatorIdle
    /\ BatchesIdle
    /\ LegacyIdle
    /\ g_point \in [lat : RegionLats, long : RegionLongs]
    /\ g_pc = "called"
    /\ g_result = <<>>

\* the call returns its dict
RegionReturn ==
    /\ g_pc = "called"
    /\ g_result' = << get_geographic_region(g_point.lat, g_point.long) >>
    /\ g_pc' = "returned"
    /\ UNCHANGED <<beside_region, g_point>>

NextRegion == RegionReturn

SpecRegion == RegionInit /\ [][NextRegion]_vars

(* -------------------------- the output batches ------------------------ *)

\* check_batch_exists: both paths exist and read_csv(csv_path, nrows=1) gives
\* a row; on a zero-byte file read_csv raises and the answer is False
check_batch_exists(files) ==
    /\ files.csv.state # "absent"
    /\ files.metadata.state # "absent"
    /\ files.csv.state = "written"
    /\ Len(files.csv.content) > 0

\* batch_num = batch_idx + 1
batch_num == b_idx + 1

\* df_batch_cleaned of a batch: its rows, numbered
BatchData(b) == [k \in 1..b_weather[b] |-> k]

\* the metadata object of save_batch_output
BatchMetadata(b) == [batch_number |-> b, total_records |-> b_weather[b]]

\* the batch loop of main over the batches of some earlier or later process;
\* the runs are made with --no-json
BatchesInit ==
    /\ PipelineIdle
    /\ MatcherIdle
    /\ AggregatorIdle
    /\ RegionIdle
    /\ LegacyIdle
    /\ b_files = [b \in BatchNums |-> [csv |-> NoFile, metadata |-> NoFile]]
    /\ b_weather \in [BatchNums -> {0, 2}]
    /\ b_pc = "idle"
    /\ b_idx = 0
    /\ b_force = {}
    /\ b_torn = {}

\* a process reaches the batch loop (line 1559) with its arguments
BatchLoopStart ==
    /\ b_pc \in {"idle", "done"}
    /\ \E force \in SUBSET BatchNums : b_force' = force
    /\ b_pc' = "loop"
    /\ b_idx' = 0
    /\ UNCHANGED <<beside_batches, b_files, b_weather, b_torn>>

\* the continue of line 1571
SkipsBatch == batch_num \notin b_force /\ check_batch_exists(b_files[batch_num])

BatchSkip ==
    /\ b_pc = "loop"
    /\ b_idx < MaxBatches
    /\ SkipsBatch
    /\ b_idx' = b_idx + 1
    /\ UNCHANGED <<beside_batches, b_files, b_weather, b_pc, b_force, b_torn>>

\* no weather data for the batch: the continue of line 1597
BatchNoWeather ==
    /\ b_pc = "loop"
    /\ b_idx < MaxBatches
    /\ ~SkipsBatch
    /\ b_weather[batch_num] = 0
    /\ b_idx' = b_idx + 1
    /\ UNCHANGED <<beside_batches, b_files, b_weather, b_pc, b_force, b_torn>>

\* the batch is processed and save_batch_output starts: df.to_csv(csv_path)
\* opens the data file, which truncates it
SaveCsvOpen ==
    /\ b_pc = "loop"
    /\ b_idx < MaxBatches
    /\ ~SkipsBatch
    /\ b_weather[batch_num] > 0
    /\ b_files' = [b_files EXCEPT ![batch_num].csv = EmptyFile]
    /\ b_pc' = "csv_open"
    /\ UNCHANGED <<beside_batches, b_weather, b_idx, b_force, b_torn>>

\* df.to_csv(csv_path) completes
SaveCsvWrite ==
    /\ b_pc = "csv_open"
    /\ b_files' = [b_files EXCEPT ![batch_num].csv = CsvFile(BatchData(batch_num))]
    /\ b_pc' = "csv_written"
    /\ UNCHANGED <<beside_batches, b_weather, b_idx, b_force, b_torn>>

\* open(metadata_path, 'w') truncates the metadata file
SaveMetadataOpen ==
    /\ b_pc = "csv_written"
    /\ b_files' = [b_files EXCEPT ![batch_num].metadata = EmptyFile]
    /\ b_pc' = "metadata_open"
    /\ UNCHANGED <<beside_batches, b_weather, b_idx, b_force, b_torn>>

\* json.dump(metadata, f) completes; save_batch_output returns and the loop
\* goes to the next batch
SaveMetadataDump ==
    /\ b_pc = "metadata_open"
    /\ b_files' = [b_files EXCEPT ![batch_num].metadata = JsonFile(BatchMetadata(batch_num))]
    /\ b_torn' = b_torn \ {batch_num}
    /\ b_pc' = "loop"
    /\ b_idx' = b_idx + 1
    /\ UNCHANGED <<beside_batches, b_weather, b_force>>

\* the loop has ended: the summary is written and main returns
BatchLoopEnd ==
    /\ b_pc = "loop"
    /\ b_idx = MaxBatches
    /\ b_pc' = "done"
    /\ UNCHANGED <<beside_batches, b_files, b_weather, b_idx, b_force, b_torn>>

\* the process is interrupted between two batches
BatchInterrupt ==
    /\ b_pc = "loop"
    /\ b_pc' = "idle"
    /\ UNCHANGED <<beside_batches, b_files, b_weather, b_idx, b_force, b_torn>>

\* the process is interrupted inside save_batch_output before json.dump has
\* written the metadata; inside df.to_csv the data file is left with the rows
\* that reached it (none, not even the header, or some)
SaveInterrupt ==
    /\ b_pc \in {"csv_open", "csv_written", "metadata_open"}
    /\ IF b_pc = "csv_open"
       THEN \E left \in {EmptyFile} \cup {CsvFile(SubSeq(BatchData(batch_num), 1, n)) :
                                            n \in 0..(b_weather[batch_num] - 1)} :
               b_files' = [b_files EXCEPT ![batch_num].csv = left]
       ELSE b_files' = b_files
    /\ b_torn' = b_torn \cup {batch_num}
    /\ b_pc' = "idle"
    /\ UNCHANGED <<beside_batches, b_weather, b_idx, b_force>>

NextBatches ==
    \/ BatchLoopStart
    \/ BatchSkip
    \/ BatchNoWeather
    \/ SaveCsvOpen
    \/ SaveCsvWrite
    \/ SaveMetadataOpen
    \/ SaveMetadataDump
    \/ BatchLoopEnd
    \/ BatchInterrupt
    \/ SaveInterrupt

SpecBatches == BatchesInit /\ [][NextBatches]_vars

(* ------- the earlier script (one city per station, assigned_cities) ---- *)

\* MATCHING_VERSION of CleanData_MatchCities_ExpandDatesAndWeather.py
LEGACY_MATCHING_VERSION == "v2_worldcities"

\* city_key = f"{city_row['city']}_{city_row['country']}", held as a pair
city_key(r) == <<r.city, r.country>>

\* variant of the matcher of the earlier script: assigned_cities is ignored
legacy_match_any(station_lat, station_lon, df_cities, assigned_cities, primary_radius_km, fallback_radius_km) ==
    LET df_nearby == Nearby(WithDistance(station_lat, station_lon, df_cities),
                            primary_radius_km, fallback_radius_km)
    IN  IF df_nearby = <<>>
        THEN [result |-> <<>>, assigned_cities |-> assigned_cities]
        ELSE [result |-> << [city |-> TopRanked(df_nearby).city,
                             country |-> TopRanked(df_nearby).country,
                             data_source |-> "worldcities"] >>,
              assigned_cities |-> assigned_cities \cup {city_key(TopRanked(df_nearby))}]

\* match_station_to_major_city of the earlier script, called without a country:
\* the first row of the sorted df_nearby whose key is not in assigned_cities;
\* the key is added to the set
legacy_match(station_lat, station_lon, df_cities, assigned_cities, primary_radius_km, fallback_radius_km) ==
    LET df_nearby == Nearby(WithDistance(station_lat, station_lon, df_cities),
                            primary_radius_km, fallback_radius_km)
        Free(r) == city_key(r) \notin assigned_cities
        free == SelectSeq(df_nearby, Free)
    IN  IF free = <<>>
        THEN [result |-> <<>>, assigned_cities |-> assigned_cities]
        ELSE [result |-> << [city |-> TopRanked(free).city,
                             country |-> TopRanked(free).country,
                             data_source |-> "worldcities"] >>,
              assigned_cities |-> assigned_cities \cup {city_key(TopRanked(free))}]

\* the row loop body of the earlier script: major cities, then all cities
\* with doubled radii, then the geocoder, then a row marked 'failed'
LegacyResolveRow(lat, long, assigned_cities, raising) ==
    LET step1 == legacy_match(lat, long, df_major_cities, assigned_cities,
                     SEARCH_RADIUS_KM_PRIMARY, SEARCH_RADIUS_KM_FALLBACK)
        step2 == legacy_match(lat, long, df_all_cities, step1.assigned_cities,
                     SEARCH_RADIUS_KM_PRIMARY * 2, SEARCH_RADIUS_KM_FALLBACK * 2)
        city == extract_city(safe_reverse(lat, long, raising).raw)
    IN  IF step1.result # <<>>
        THEN [match_result |-> step1.result[1], assigned_cities |-> step1.assigned_cities]
        ELSE IF step2.result # <<>>
        THEN [match_result |-> [step2.result[1] EXCEPT !.data_source = "worldcities_small"],
              assigned_cities |-> step2.assigned_cities]
        ELSE IF city # ""
        THEN [match_result |-> [city |-> city,
                                country |-> extract_country(safe_reverse(lat, long, raising).raw),
                                data_source |-> "nominatim"],
              assigned_cities |-> assigned_cities]
        ELSE [match_result |-> [city |-> "", country |-> "", data_source |-> "failed"],
              assigned_cities |-> assigned_cities]

\* station sites: two within reach of Rome, one near two small towns, one
\* that only the geocoder knows
LegacyStations ==
    << [lat |-> 41800, long |-> 12500],
       [lat |-> 47100, long |-> 12500],
       [lat |-> 64000, long |-> 100000],
       [lat |-> 41810, long |-> 12500] >>

LegacyRequests ==
    LET first == SubSeq(LegacyStations, 1, Min(MaxLocs, Len(LegacyStations)))
        Pick(S) == LET In(st) == st \in S IN SelectSeq(first, In)
    IN  {Pick(S) : S \in (SUBSET Range(first)) \ {{}}}

LegacyInit ==
    /\ PipelineIdle
    /\ MatcherIdle
    /\ AggregatorIdle
    /\ RegionIdle
    /\ BatchesIdle
    /\ l_locs \in LegacyRequests
    /\ l_checkpoint = NoFile
    /\ l_pc = "idle"
    /\ l_needs_geocoding = <<>>
    /\ l_already_geocoded = <<>>
    /\ l_already_completed = 0
    /\ l_i = 0
    /\ l_batch_results = <<>>
    /\ l_assigned_cities = {}
    /\ l_final_result = <<>>

\* load_geocoding_progress of the earlier script on the files its own runs
\* wrote: the version stored is its own
LegacyLoaded ==
    IF l_checkpoint = NoFile THEN <<>> ELSE << read_csv(l_checkpoint.content) >>

LegacyMerged == LeftMerge(l_locs, LegacyLoaded[1])

LegacyCanStart == l_pc \in {"idle", "returned"}

\* no checkpoint: every requested Location needs geocoding
LegacyStartFresh ==
    /\ LegacyCanStart
    /\ LegacyLoaded = <<>>
    /\ l_pc' = "batch"
    /\ l_needs_geocoding' = l_locs
    /\ l_already_geocoded' = <<>>
    /\ l_already_completed' = 0
    /\ l_i' = 0
    /\ l_batch_results' = <<>>
    /\ l_assigned_cities' = {}
    /\ l_final_result' = <<>>
    /\ UNCHANGED <<beside_legacy, l_locs, l_checkpoint>>

\* all locations already geocoded: return unique_locs
LegacyStartComplete ==
    /\ LegacyCanStart
    /\ LegacyLoaded # <<>>
    /\ Len(NeedsGeocoding(LegacyMerged)) = 0
    /\ l_pc' = "returned"
    /\ l_needs_geocoding' = <<>>
    /\ l_already_geocoded' = AlreadyGeocoded(LegacyMerged)
    /\ l_already_completed' = Len(AlreadyGeocoded(LegacyMerged))
    /\ l_i' = 0
    /\ l_batch_results' = <<>>
    /\ l_assigned_cities' = {}
    /\ l_final_result' = LegacyMerged
    /\ UNCHANGED <<beside_legacy, l_locs, l_checkpoint>>

\* resuming: the rows without a city enter the batch loop; assigned_cities
\* starts as an empty set (line 843)
LegacyStartResume ==
    /\ LegacyCanStart
    /\ LegacyLoaded # <<>>
    /\ Len(NeedsGeocoding(LegacyMerged)) # 0
    /\ l_pc' = "batch"
    /\ l_needs_geocoding' = Keys(NeedsGeocoding(LegacyMerged))
    /\ l_already_geocoded' = AlreadyGeocoded(LegacyMerged)
    /\ l_already_completed' = Len(AlreadyGeocoded(LegacyMerged))
    /\ l_i' = 0
    /\ l_batch_results' = <<>>
    /\ l_assigned_cities' = {}
    /\ l_final_result' = <<>>
    /\ UNCHANGED <<beside_legacy, l_locs, l_checkpoint>>

LegacyCurrentBatch == Batch(l_needs_geocoding, l_i)

\* one iteration of `for idx, row in batch.iterrows()`
LegacyResolveNext ==
    /\ l_pc = "batch"
    /\ Len(l_batch_results) < Len(LegacyCurrentBatch)
    /\ \E raising \in {0, max_retries} :
          LET row == LegacyCurrentBatch[Len(l_batch_results) + 1]
              res == LegacyResolveRow(row.lat, row.long, l_assigned_cities, raising)
          IN  /\ l_batch_results' = Append(l_batch_results,
                     Row(row.lat, row.long, res.match_result, LEGACY_MATCHING_VERSION))
              /\ l_assigned_cities' = res.assigned_cities
    /\ UNCHANGED <<beside_legacy, l_locs, l_checkpoint, l_pc, l_needs_geocoding,
                   l_already_geocoded, l_already_completed, l_i, l_final_result>>

\* save_geocoding_checkpoint(combined, progress_info), then
\* already_geocoded = combined and the next iteration of the batch loop
LegacySaveCheckpoint ==
    /\ l_pc = "batch"
    /\ Len(l_batch_results) = Len(LegacyCurrentBatch)
    /\ l_checkpoint' = CsvFile(Combined(l_already_geocoded, l_batch_results))
    /\ l_already_geocoded' = Combined(l_already_geocoded, l_batch_results)
    /\ l_i' = l_i + geocoding_checkpoint_size
    /\ l_batch_results' = <<>>
    /\ l_pc' = IF l_i' < Len(l_needs_geocoding) THEN "batch" ELSE "final"
    /\ UNCHANGED <<beside_legacy, l_locs, l_needs_geocoding, l_already_completed,
                   l_assigned_cities, l_final_result>>

\* after the loop: final_result = already_geocoded is returned
LegacyFinalSave ==
    /\ l_pc = "final"
    /\ l_final_result' = l_already_geocoded
    /\ l_pc' = "returned"
    /\ UNCHANGED <<beside_legacy, l_locs, l_checkpoint, l_needs_geocoding,
                   l_already_geocoded, l_already_completed, l_i, l_batch_results,
                   l_assigned_cities>>

\* the process is interrupted: nothing of its memory survives
LegacyInterrupt ==
    /\ l_pc \in {"batch", "final"}
    /\ l_pc' = "idle"
    /\ l_needs_geocoding' = <<>>
    /\ l_already_geocoded' = <<>>
    /\ l_already_completed' = 0
    /\ l_i' = 0
    /\ l_batch_results' = <<>>
    /\ l_assigned_cities' = {}
    /\ l_final_result' = <<>>
    /\ UNCHANGED <<beside_legacy, l_locs, l_checkpoint>>

NextLegacy ==
    \/ LegacyStartFresh
    \/ LegacyStartComplete
    \/ LegacyStartResume
    \/ LegacyResolveNext
    \/ LegacySaveCheckpoint
    \/ LegacyFinalSave
    \/ LegacyInterrupt

SpecLegacy == LegacyInit /\ [][NextLegacy]_vars

(* ============================== claims ================================ *)

\* the rows resolved by the running process so far, in order: calls[k] holds
\* the tier calls made for SessionRows[k]
SessionRows ==
    LET saved == Min(i, Len(needs_geocoding))
    IN  SubSeq(already_geocoded, Len(already_geocoded) - saved + 1,
               Len(already_geocoded))
        \o batch_results

\* the rows of the checkpoint file (none when it is absent or empty)
PersistedRows == checkpoint_csv.content

\* C1 (as claimed): when a run returns, the returned table holds exactly one
\* row per requested Location and every row's data_source is one of the four
\* tier tags, rows taken over from the checkpoint included.
C1_Coverage ==
    pc = "returned" =>
        /\ Len(final_result) = Len(unique_locs)
        /\ Range(Keys(final_result)) = Range(unique_locs)
        /\ \A k \in DOMAIN final_result : final_result[k].data_source \in TierTags

\* C3 (as claimed): whenever no process is running (so at every restart), the
\* two files are exactly what the last completed save wrote, or what was
\* there before the first one.
C3_CrashConsistent ==
    pc = "idle" => <<checkpoint_csv, progress_json>> = last_append

\* C4 (as claimed): at every moment at most one batch of resolved Locations
\* is missing from the persisted checkpoint.
C4_LossAtMostOneBatch ==
    Cardinality(resolved_ever \ Range(Keys(PersistedRows))) <= geocoding_checkpoint_size

\* C5 (as claimed): a checkpoint table is reused only when the metadata file
\* stored with it carries the running MATCHING_VERSION.
C5_ReusedOnlyIfVersionMatches ==
    existing_geocoded # <<>> =>
        /\ progress_json.state = "written"
        /\ checkpoint_version(progress_json.content[1]) = MATCHING_VERSION

\* C2: tiers are tried in the order major-city match, any-city match,
\* external geocoder, geographic fallback, and the cascade stops at the first
\* tier that succeeds: nothing is called after a matching tier 1 or tier 2,
\* the geocoder is called only when both matches failed, and the row carries
\* the tag of the last tier called.
TierOrderHolds(c, tag) ==
    LET tier1 == match_station_to_major_city(c.lat, c.long, df_major_cities,
                     SEARCH_RADIUS_KM_PRIMARY, SEARCH_RADIUS_KM_FALLBACK, "") # <<>>
        tier2 == match_station_to_major_city(c.lat, c.long, df_all_cities,
                     SEARCH_RADIUS_KM_PRIMARY, SEARCH_RADIUS_KM_FALLBACK, "") # <<>>
        both == <<"major_city", "any_city">>
    IN  /\ tier1 => c.tiers = <<"major_city">> /\ tag = "worldcities"
        /\ (~tier1 /\ tier2) => c.tiers = both /\ tag = "worldcities_small"
        /\ (~tier1 /\ ~tier2) =>
              \E n \in 1..max_retries :
                 \/ c.tiers = both \o NominatimCalls(n) /\ tag = "nominatim"
                 \/ /\ c.tiers = both \o NominatimCalls(n) \o <<"geographic">>
                    /\ tag = "geographic_region"

C2_TierOrder ==
    /\ Len(calls) = Len(SessionRows)
    /\ \A k \in DOMAIN calls :
          /\ Key(calls[k]) = Key(SessionRows[k])
          /\ TierOrderHolds(calls[k], SessionRows[k].data_source)

\* C2 witness: one run has resolved a Location at tier 1 with a single call
\* and another by the geographic fallback after the three earlier tiers
C2_Witness ==
    /\ \E k \in DOMAIN calls : calls[k].tiers = <<"major_city">>
    /\ \E k \in DOMAIN calls : "geographic" \in Range(calls[k].tiers)
    /\ \E k \in DOMAIN calls : calls[k].tiers = <<"major_city", "any_city">>

\* a stored version tag that differs from MATCHING_VERSION, or no checkpoint
StaleOrAbsent ==
    \/ checkpoint_csv = NoFile
    \/ /\ progress_json.state = "written"
       /\ checkpoint_version(progress_json.content[1]) # MATCHING_VERSION

\* C6 (as claimed): when no checkpoint exists or the stored version tag
\* differs, load returns None and the run proceeds as a fresh run: every
\* requested Location is to be resolved and nothing is taken from the file.
C6_StaleRunsFresh ==
    [][ (CanStart /\ StaleOrAbsent) =>
            /\ pc' = "batch"
            /\ existing_geocoded' = <<>>
            /\ already_geocoded' = <<>>
            /\ needs_geocoding' = unique_locs ]_vars

\* C7: if the left join of the requested set against the loaded checkpoint
\* changes the row count, the run aborts before any tier call and writes
\* nothing: both files are left as they were.
JoinChangesRowCount ==
    /\ ~Loaded.raised
    /\ Loaded.df # <<>>
    /\ missing_cols(Loaded.df[1]) = {}
    /\ Len(Merged) # Len(unique_locs)

C7_IntegrityAbort ==
    [][ (CanStart /\ JoinChangesRowCount) =>
            /\ pc' = "aborted"
            /\ calls' = <<>>
            /\ batch_results' = <<>>
            /\ checkpoint_csv' = checkpoint_csv
            /\ progress_json' = progress_json ]_vars

\* C7 witness: a run has aborted on the checkpoint holding two rows for a
\* requested Location, and the files are still the ones it found
C7_Witness ==
    /\ entry = "integrity_error"
    /\ pc = "aborted"
    /\ checkpoint_csv = CsvFile(DuplicatedTable)

\* what one uninterrupted run over locs returns when the geocoder answers
\* every request at the first attempt
OnePassTable(locs) ==
    [k \in DOMAIN locs |->
        Row(locs[k].lat, locs[k].long,
            ResolveRow(locs[k].lat, locs[k].long, 0).match_result, MATCHING_VERSION)]

RowsFor(df, l) == {k \in DOMAIN df : Key(df[k]) = l}

\* C8: starting without a checkpoint, with runs interrupted only at batch
\* boundaries and a geocoder that gives the same answer each time, the table
\* returned after any number of resumed sessions gives every requested
\* Location the data_source the one-pass run gives it.
C8_ResumeEquivalence ==
    (clean_history /\ pc = "returned") =>
        \A k \in DOMAIN unique_locs :
            /\ Cardinality(RowsFor(final_result, unique_locs[k])) = 1
            /\ \A j \in RowsFor(final_result, unique_locs[k]) :
                  final_result[j].data_source = OnePassTable(unique_locs)[k].data_source

\* C8 witness: a run that took part of its result from the checkpoint of an
\* interrupted earlier session and resolved the rest itself has returned
C8_Witness ==
    /\ clean_history
    /\ pc = "returned"
    /\ entry = "resume"
    /\ already_completed > 0
    /\ Len(calls) > 0

\* the checkpoint is loaded and gives every requested Location exactly one
\* row with a city
FullyResolved ==
    /\ ~Loaded.raised
    /\ Loaded.df # <<>>
    /\ missing_cols(Loaded.df[1]) = {}
    /\ \A k \in DOMAIN unique_locs :
          /\ Cardinality(RowsFor(Loaded.df[1], unique_locs[k])) = 1
          /\ \A j \in RowsFor(Loaded.df[1], unique_locs[k]) : Loaded.df[1][j].city # NaN

StoredRow(l) ==
    LET df == read_csv(PersistedRows)
    IN  df[CHOOSE j \in DOMAIN df : Key(df[j]) = l]

\* C9: a run over a set that the loaded checkpoint already resolves in full
\* makes no tier call and returns, for every requested Location, the row
\* stored in the checkpoint.
C9_Idempotent ==
    [][ (CanStart /\ FullyResolved) =>
            /\ pc' = "returned"
            /\ calls' = <<>>
            /\ stats' = EmptyStats
            /\ Len(final_result') = Len(unique_locs)
            /\ \A k \in DOMAIN unique_locs :
                  final_result'[k] = StoredRow(unique_locs[k]) ]_vars

\* C9 witness: a run found everything in the checkpoint a previous run of
\* two batches had written, and returned
C9_Witness ==
    /\ entry = "complete"
    /\ pc = "returned"
    /\ calls = <<>>
    /\ Len(final_result) > geocoding_checkpoint_size
    /\ progress_json.state = "written"
    /\ checkpoint_version(progress_json.content[1]) = MATCHING_VERSION

\* the requested Locations that have a result in the loaded checkpoint
TakenFromCheckpoint ==
    IF existing_geocoded = <<>> THEN {}
    ELSE {l \in Range(unique_locs) :
             \E j \in DOMAIN existing_geocoded[1] :
                 Key(existing_geocoded[1][j]) = l /\ existing_geocoded[1][j].city # NaN}

ResolvedThisSession == {Key(calls[k]) : k \in DOMAIN calls}

\* the values i takes in range(0, total_to_geocode, geocoding_checkpoint_size)
BatchStarts(total_to_geocode) ==
    {s \in 0..(total_to_geocode - 1) : s % geocoding_checkpoint_size = 0}

\* C10: no tier is invoked for a requested Location that has a result in the
\* checkpoint; every other one lies in exactly one batch of at most
\* geocoding_checkpoint_size rows and is resolved once; at the end the two sets
\* are disjoint and make up the requested set.
C10_ResumePartition ==
    /\ TakenFromCheckpoint \cap ResolvedThisSession = {}
    /\ \A a, b \in DOMAIN calls : Key(calls[a]) = Key(calls[b]) => a = b
    /\ pc \in {"batch", "save_progress", "final"} =>
          /\ Range(needs_geocoding) = Range(unique_locs) \ TakenFromCheckpoint
          /\ \A n \in DOMAIN needs_geocoding :
                Cardinality({s \in BatchStarts(Len(needs_geocoding)) :
                                s < n /\ n <= BatchEnd(s, Len(needs_geocoding))}) = 1
          /\ \A s \in BatchStarts(Len(needs_geocoding)) :
                Len(Batch(needs_geocoding, s)) <= geocoding_checkpoint_size
    /\ (pc \in {"final", "returned"}) =>
          TakenFromCheckpoint \cup ResolvedThisSession = Range(unique_locs)

\* C10 witness: a resumed run has finished its batches, having taken some
\* Locations from the checkpoint and resolved more than one batch itself
C10_Witness ==
    /\ entry = "resume"
    /\ pc = "final"
    /\ TakenFromCheckpoint # {}
    /\ Len(calls) > geocoding_checkpoint_size

\* the number of calls made to the external geocoder for one Location
GeocoderCalls(c) == Cardinality({k \in DOMAIN c.tiers : c.tiers[k] = "nominatim"})

\* C11: a Location that reaches tier 3 gets at most max_retries calls to the
\* external geocoder; every call but the last one raised; a call that answers
\* (with a city, without one, or with nothing) is the last one; when the last
\* call raised too, all max_retries were made; and whenever tier 3 yields no
\* city the Location is resolved by the geographic fallback, so the batch
\* goes on with one row per resolved Location.
C11_RetryAndDegrade ==
    /\ Len(calls) = Len(SessionRows)
    /\ \A k \in DOMAIN calls :
          LET c == calls[k]
              n == GeocoderCalls(c)
              answered == c.raised < n
              city == extract_city(NominatimAnswer(c.lat, c.long))
          IN  /\ n <= max_retries
              /\ n - 1 <= c.raised /\ c.raised <= n
              /\ (n > 0 /\ ~answered) => n = max_retries
              /\ n > 0 =>
                    IF answered /\ city # ""
                    THEN /\ SessionRows[k].data_source = "nominatim"
                         /\ SessionRows[k].city = city
                    ELSE /\ SessionRows[k].data_source = "geographic_region"
                         /\ c.tiers[Len(c.tiers)] = "geographic"

\* C11 witness: in one run the geocoder raised on all its calls for a place
\* it knows, which went to the geographic fallback, and answered nothing at
\* the first call for another, which was not retried; the batch was saved
C11_Witness ==
    /\ pc = "final"
    /\ \E k \in DOMAIN calls :
          /\ calls[k].raised = max_retries
          /\ NominatimAnswer(calls[k].lat, calls[k].long) # <<>>
          /\ SessionRows[k].data_source = "geographic_region"
    /\ \E k \in DOMAIN calls :
          /\ GeocoderCalls(calls[k]) = 1
          /\ calls[k].raised = 0
          /\ SessionRows[k].data_source = "geographic_region"

\* the terminal state Resolved: the run has returned a table in which every
\* requested Location has a result
Resolved ==
    /\ pc = "returned"
    /\ \A k \in DOMAIN unique_locs :
          \E j \in DOMAIN final_result :
              /\ Key(final_result[j]) = unique_locs[k]
              /\ final_result[j].city # NaN

\* C12: an uninterrupted run that is not stopped by the checkpoint integrity
\* check or by the missing reference city file eventually reaches Resolved, whatever the geocoder does on each
\* call: no Location stays unresolved or in progress forever.
C12_Termination ==
    (pc \in {"batch", "save_progress", "final"}
        \/ (pc = "idle" /\ ~JoinChangesRowCount /\ WorldcitiesFound))
        ~> Resolved

\* C12 witness: a run of more than one batch, in which the geocoder raised
\* on every call for one Location, has reached Resolved
C12_Witness ==
    /\ Resolved
    /\ Len(calls) > geocoding_checkpoint_size
    /\ \E k \in DOMAIN calls : calls[k].raised = max_retries

\* C13: a run started on a checkpoint that already resolves every requested
\* Location returns without entering the batch loop and without writing: the
\* checkpoint table, the metadata file and the final output files are left
\* exactly as they were.
C13_NoWriteWhenComplete ==
    [][ (CanStart /\ FullyResolved) =>
            /\ pc' = "returned"
            /\ i' = 0
            /\ checkpoint_csv' = checkpoint_csv
            /\ progress_json' = progress_json
            /\ output_files' = output_files ]_vars

\* C13 witness: a run found every Location in the checkpoint of an earlier
\* run that was interrupted before its final save; it has returned and the
\* output files are still absent
C13_Witness ==
    /\ entry = "complete"
    /\ pc = "returned"
    /\ progress_json.state = "written"
    /\ checkpoint_version(progress_json.content[1]) = MATCHING_VERSION
    /\ Len(checkpoint_csv.content) = Len(unique_locs)
    /\ output_files.simplified = NoFile

\* the calls of the matcher that have returned
Returned == {t \in Callers : m_call[t].pc = "done"}

\* what the call of t returns when it runs alone, with and without its hint
AloneResult(t, station_country) ==
    match_station_to_major_city(m_call[t].point.lat, m_call[t].point.long, m_table,
                                m_radii[1], m_radii[2], station_country)

\* C14 (as claimed): a call with a country hint returns None only if the
\* call without the hint on the same point, table and radii returns None.
C14_HintAdvisory ==
    \A t \in Returned :
        m_call[t].result = <<>> => AloneResult(t, "") = <<>>

\* the candidates of the call of t (after the country filter) with their
\* distances to its point, and those within km of it
CandidatesOf(t) ==
    CountryCandidates(WithDistance(m_call[t].point.lat, m_call[t].point.long, m_table),
                      m_call[t].station_country)

Within(df, km) == LET Near(r) == r.distance <= km * 1000 IN SelectSeq(df, Near)

Cities(df) == {df[k].city : k \in DOMAIN df}

MorePopulous(a, b) ==
    /\ a.population # NoPopulation
    /\ b.population = NoPopulation \/ a.population > b.population

\* the row of the selected radius the call of t returned
ReturnedRow(t) ==
    LET near == Nearby(CandidatesOf(t), m_radii[1], m_radii[2])
    IN  near[CHOOSE k \in DOMAIN near : near[k].city = m_call[t].result[1].city]

\* C16: among the candidates inside the selected radius none is more
\* populous than the returned one, and none of equal population is nearer.
C16_PopulationOutranksDistance ==
    \A t \in Returned :
        m_call[t].result # <<>> =>
            LET near == Nearby(CandidatesOf(t), m_radii[1], m_radii[2])
            IN  /\ m_call[t].result[1].city \in Cities(near)
                /\ \A k \in DOMAIN near :
                      /\ ~MorePopulous(near[k], ReturnedRow(t))
                      /\ near[k].population = ReturnedRow(t).population
                            => ReturnedRow(t).distance <= near[k].distance

\* C16 witness: one call returned a city although a less populous one was
\* nearer within the same radius; another returned the nearer of two cities
\* of equal population
C16_Witness ==
    /\ \E t \in Returned :
          /\ m_call[t].result # <<>>
          /\ \E k \in DOMAIN Nearby(CandidatesOf(t), m_radii[1], m_radii[2]) :
                LET other == Nearby(CandidatesOf(t), m_radii[1], m_radii[2])[k]
                IN  /\ other.distance < ReturnedRow(t).distance
                    /\ MorePopulous(ReturnedRow(t), other)
    /\ \E t \in Returned :
          /\ m_call[t].result # <<>>
          /\ \E k \in DOMAIN Nearby(CandidatesOf(t), m_radii[1], m_radii[2]) :
                LET other == Nearby(CandidatesOf(t), m_radii[1], m_radii[2])[k]
                IN  /\ other.distance > ReturnedRow(t).distance
                    /\ other.population = ReturnedRow(t).population

\* C17 (as claimed): whatever the interleaving of two calls on one table,
\* each call returns what it returns when run alone.
C17_Isolation ==
    \A t \in Returned :
        m_call[t].result = AloneResult(t, m_call[t].station_country)

\* C18 (as claimed): merge_with_original raises the join integrity error if
\* and only if the left join of the measurement table against the result
\* table on (lat, long) does not preserve the number of measurement rows.
C18_JoinSafety ==
    a_pc \in {"merged", "join_error", "pivoted"} =>
        ((a_pc = "join_error") <=> (Len(MergeLeft(a_weather, a_geocoded)) # Len(a_weather)))

\* the (city, country, state, suburb, date) key of a row or of an index
BaseKey(r) ==
    [city |-> FillNa(r.city), country |-> FillNa(r.country), state |-> FillNa(r.state),
     suburb |-> FillNa(r.suburb), date |-> r.date]

\* C19 (as claimed): the pivot holds exactly one row for every (city,
\* country, state, suburb, date) key occurring in its input.
C19_OneRowPerKey ==
    a_pc = "pivoted" =>
        \A k \in DOMAIN a_enriched :
            Cardinality({row \in a_pivot :
                            BaseKey(row.index) = BaseKey(a_enriched[k])}) = 1

\* C20 (as claimed): in every row of the pivot the value of a measurement
\* type is the arithmetic mean of all the values of that type in the row's
\* city-date group, and empty when the group has none.
C20_AggregationByMean ==
    a_pc = "pivoted" =>
        \A row \in a_pivot : \A ty \in DOMAIN row.values :
            LET contributed == {k \in DOMAIN a_enriched :
                                   /\ BaseKey(a_enriched[k]) = BaseKey(row.index)
                                   /\ a_enriched[k].data_type = ty}
            IN  IF contributed = {} THEN row.values[ty] = NoValue
                ELSE /\ row.values[ty] # NoValue
                     /\ row.values[ty].sum * Cardinality(contributed)
                          = SumValues(a_enriched, contributed) * row.values[ty].n

\* the stations whose rows are aggregated into the output row of index g
StationsOf(g) ==
    {a_enriched[k].id : k \in {j \in DOMAIN a_enriched : IndexCols(a_enriched[j]) = g}}

\* the output row of the group of the measurement row k
OutputRowOf(k) == CHOOSE row \in a_output : row.index = IndexCols(a_enriched[k])

\* C21: in a group fed by a single station, the TMAX, TMIN, TAVG, PRCP and
\* SNWD of the output are the raw value divided by 10 (once), to two
\* decimals, and every other measurement column keeps the raw value.
C21_UnitConversion ==
    a_pc = "pivoted" =>
        \A k \in DOMAIN a_enriched :
            Cardinality(StationsOf(IndexCols(a_enriched[k]))) = 1 =>
                LET cell == OutputRowOf(k).values[a_enriched[k].data_type]
                IN  IF a_enriched[k].data_type \in {"TMAX", "TMIN", "TAVG", "PRCP", "SNWD"}
                    THEN cell = [sum |-> 10 * a_enriched[k].value, n |-> 100]
                    ELSE cell = [sum |-> a_enriched[k].value, n |-> 1]

\* a single-station group with a reported TAVG of 293 tenths, output 29.30, and
\* another with a SNOW value that is left as it is
C21_Witness ==
    /\ a_pc = "pivoted"
    /\ \E k \in DOMAIN a_enriched :
          /\ Cardinality(StationsOf(IndexCols(a_enriched[k]))) = 1
          /\ a_enriched[k].data_type = "TAVG"
          /\ a_enriched[k].value = 293
          /\ OutputRowOf(k).values["TAVG"] = [sum |-> 2930, n |-> 100]
    /\ \E k \in DOMAIN a_enriched :
          /\ Cardinality(StationsOf(IndexCols(a_enriched[k]))) = 1
          /\ a_enriched[k].data_type = "SNOW"
          /\ OutputRowOf(k).values["SNOW"] = [sum |-> 7, n |-> 1]

\* a cell of a row that holds a value
HasValue(values, ty) == ty \in DOMAIN values /\ values[ty] # NoValue

\* the row of the pivot that the output row comes from
PivotRowOf(out) == CHOOSE row \in a_pivot : row.index = out.index

\* C25 (as claimed): an aggregated row with a maximum and a minimum but no
\* mean temperature gets the mean min + 0.44 * (max - min), computed on the
\* tenths and then converted, also when the table has no TAVG column at all;
\* a reported mean is only converted.
C25_MeanTemperatureImputation ==
    a_pc = "pivoted" =>
        \A out \in a_output :
            LET raw == PivotRowOf(out).values
            IN  /\ (HasValue(raw, "TMAX") /\ HasValue(raw, "TMIN") /\ ~HasValue(raw, "TAVG"))
                      => /\ "TAVG" \in DOMAIN out.values
                         /\ out.values["TAVG"]
                              = div10_round2(ImputedTavg(raw["TMIN"], raw["TMAX"]))
                /\ HasValue(raw, "TAVG")
                      => out.values["TAVG"] = div10_round2(raw["TAVG"])

\* the part of C25 that the code keeps: the same, for the tables that have a
\* TAVG column
C25_ImputationWhereColumnExists ==
    a_pc = "pivoted" =>
        \A out \in a_output :
            LET raw == PivotRowOf(out).values
            IN  "TAVG" \in DOMAIN raw =>
                /\ (HasValue(raw, "TMAX") /\ HasValue(raw, "TMIN") /\ ~HasValue(raw, "TAVG"))
                      => out.values["TAVG"]
                              = div10_round2(ImputedTavg(raw["TMIN"], raw["TMAX"]))
                /\ HasValue(raw, "TAVG")
                      => out.values["TAVG"] = div10_round2(raw["TAVG"])

\* a row with TMAX 200 and TMIN 50 whose empty TAVG is filled with 11.60
C25_ImputedReached ==
    /\ a_pc = "pivoted"
    /\ \E out \in a_output :
          /\ PivotRowOf(out).values = [TMAX |-> [sum |-> 200, n |-> 1],
                                       TMIN |-> [sum |-> 50, n |-> 1],
                                       TAVG |-> NoValue]
          /\ out.values["TAVG"] = [sum |-> 1160, n |-> 100]

\* the latitude and longitude of a station
StationCoords(station) ==
    LET k == CHOOSE j \in DOMAIN a_enriched : a_enriched[j].id = station
    IN  [lat |-> a_enriched[k].lat, long |-> a_enriched[k].long]

RECURSIVE SumCoords(_)
SumCoords(stations) ==
    IF stations = {} THEN [lat |-> 0, long |-> 0]
    ELSE LET st == CHOOSE x \in stations : TRUE
             rest == SumCoords(stations \ {st})
         IN  [lat |-> StationCoords(st).lat + rest.lat,
              long |-> StationCoords(st).long + rest.long]

\* C26 (as claimed): the coordinates of an aggregated row are the mean of the
\* coordinates of the stations of its group, each station counted once.
C26_RepresentativeCoordinates ==
    a_pc = "pivoted" =>
        \A out \in a_output :
            LET stations == StationsOf(out.index)
            IN  /\ out.lat.sum * Cardinality(stations) = SumCoords(stations).lat * out.lat.n
                /\ out.long.sum * Cardinality(stations) = SumCoords(stations).long * out.long.n

\* the part of C26 that the code keeps: the mean over the measurement rows
C26_MeanOverRows ==
    a_pc = "pivoted" =>
        \A out \in a_output :
            LET rows == {k \in DOMAIN a_enriched : IndexCols(a_enriched[k]) = out.index}
            IN  /\ out.lat.n = Cardinality(rows)
                /\ out.lat.sum = SumOver([k \in DOMAIN a_enriched |-> a_enriched[k].lat], rows)

\* C23: get_geographic_region returns, for every latitude and longitude
\* of the globe, band boundaries included, a result with a city label that is
\* not empty and the tag of the geographic fallback: Arctic above 66.5,
\* Antarctic below -66.5, one ocean or remote-region label everywhere else.
C23_FallbackTotal ==
    g_pc = "returned" =>
        /\ Len(g_result) = 1
        /\ g_result[1].city # ""
        /\ g_result[1].data_source = "geographic_region"
        /\ (g_point.lat > 66500) <=> (g_result[1].city = "Arctic Region")
        /\ (g_point.lat < -66500) <=> (g_result[1].city = "Antarctic Region")
        /\ (g_point.lat >= -66500 /\ g_point.lat <= 66500)
              <=> g_result[1].city \in {"Atlantic Ocean", "Indian Ocean", "Pacific Ocean",
                                        "Remote Ocean", "Remote Northern Region",
                                        "Remote Southern Region"}

\* the point 0, -30 on the boundary between two ocean bands has returned
C23_Witness ==
    /\ g_pc = "returned"
    /\ g_point = [lat |-> 0, long |-> -30000]
    /\ g_result[1].city = "Remote Ocean"

\* the run started from the files now on disk has rows to resolve: the
\* checkpoint loads, the join keeps the row count, and a requested Location
\* has no city in it
NeedsToResolve ==
    /\ ~Loaded.raised
    /\ \/ Loaded.df = <<>>
       \/ /\ Loaded.df # <<>>
          /\ missing_cols(Loaded.df[1]) # {}
       \/ /\ Loaded.df # <<>>
          /\ missing_cols(Loaded.df[1]) = {}
          /\ ~RowCountChanged(Merged, unique_locs)
          /\ Len(NeedsGeocoding(Merged)) # 0

\* C22: while the reference city file is absent, a run that has a Location
\* to resolve ends with the reference-data-missing error; no Location is
\* ever resolved, no tier is called, and the checkpoint and its metadata
\* stay as they were found.
C22_ReferenceDataMissingFatal ==
    worldcities_csv = "absent" =>
        /\ pc \in {"idle", "aborted", "returned"}
        /\ calls = <<>>
        /\ resolved_ever = {}
        /\ <<checkpoint_csv, progress_json>> = last_append
        /\ (pc # "idle" /\ NeedsToResolve)
              => (pc = "aborted" /\ entry = "worldcities_missing")

\* a run that found a usable checkpoint with a Location still to resolve has
\* ended with the error
C22_Witness ==
    /\ worldcities_csv = "absent"
    /\ pc = "aborted"
    /\ entry = "worldcities_missing"
    /\ existing_geocoded # <<>>
    /\ NeedsToResolve

\* the checkpoint on disk loads and lacks a required column
CheckpointCorrupted ==
    /\ ~Loaded.raised
    /\ Loaded.df # <<>>
    /\ missing_cols(Loaded.df[1]) # {}

\* C27 (as claimed): a run that loads a checkpoint without one of the columns
\* lat, long, city, country starts fresh, as a run that found no checkpoint
\* does: every requested Location enters the batch loop, none counts as
\* already resolved.
C27_CorruptedCheckpointRecovery ==
    [][ (CanStart /\ CheckpointCorrupted /\ WorldcitiesFound) =>
            /\ pc' = "batch"
            /\ needs_geocoding' = unique_locs
            /\ already_geocoded' = <<>> ]_vars

\* what the code does with such a checkpoint: the run ends with an exception,
\* nothing is resolved and both files stay as they were
C27_CorruptedCheckpointAborts ==
    [][ (CanStart /\ CheckpointCorrupted) =>
            /\ pc' = "aborted"
            /\ calls' = <<>>
            /\ UNCHANGED disk ]_vars

\* the part of C12 that the code keeps: the same, when the checkpoint found
\* has its required columns
C12_TerminationUsableCheckpoint ==
    (pc \in {"batch", "save_progress", "final"}
        \/ (pc = "idle" /\ ~JoinChangesRowCount /\ WorldcitiesFound /\ ~CheckpointCorrupted))
        ~> Resolved

\* the checkpoint file holds a table whose rows the running version wrote
PersistedSameVersion ==
    /\ checkpoint_csv.state = "written"
    /\ \A k \in DOMAIN PersistedRows : PersistedRows[k].ver = MATCHING_VERSION

\* every row of the table on disk is a row of the table that replaces it
RowsKept ==
    \A k \in DOMAIN PersistedRows :
        \E j \in DOMAIN checkpoint_csv'.content : checkpoint_csv'.content[j] = PersistedRows[k]

\* C24 (as claimed): whenever the persisted checkpoint of the running version
\* is replaced, in the same run or in a resumed one, every row of the earlier
\* table is in the later one, unchanged.
C24_ResultsAccumulate ==
    [][ (PersistedSameVersion /\ checkpoint_csv' # checkpoint_csv) => RowsKept ]_vars

\* the part of C24 that the code keeps: when the two files are those of a
\* completed save of the running version, the next write of the table, if it
\* completes, keeps the rows of the Locations that the run was asked for
C24_RequestedRowsKept ==
    [][ (/\ PersistedSameVersion
         /\ <<checkpoint_csv, progress_json>> = last_append
         /\ progress_json.state = "written"
         /\ checkpoint_version(progress_json.content[1]) = MATCHING_VERSION
         /\ checkpoint_csv' # checkpoint_csv
         /\ pc' = "save_progress") =>
            \A k \in DOMAIN PersistedRows :
                Key(PersistedRows[k]) \in Range(unique_locs) =>
                    \E j \in DOMAIN checkpoint_csv'.content :
                        checkpoint_csv'.content[j] = PersistedRows[k] ]_vars

\* the sum of the per-tier counters of a metadata envelope
TierCounters(progress_info) ==
    progress_info.worldcities_matched + progress_info.worldcities_small
    + progress_info.worldcities_distant + progress_info.nominatim_fallback
    + progress_info.geographic_region

\* a metadata envelope is being written
EnvelopeWritten == progress_json' # progress_json /\ progress_json'.state = "written"

\* C29 (as claimed): in every metadata envelope that a run persists, fresh or
\* resumed, the per-tier counters sum to completed, completed is the number
\* of rows of the persisted table, and completed is at most total.
C29_CountersConsistent ==
    [][ EnvelopeWritten =>
            LET progress_info == progress_json'.content[1]
            IN  /\ TierCounters(progress_info) = progress_info.completed
                /\ progress_info.completed = Len(checkpoint_csv'.content)
                /\ progress_info.completed <= progress_info.total ]_vars

\* the part of C29 that the code keeps: completed is the row count of the
\* table and at most total; the counters count the rows resolved by the
\* running process only, so they sum to completed on a fresh run
C29_CountersOfTheSession ==
    [][ EnvelopeWritten =>
            LET progress_info == progress_json'.content[1]
            IN  /\ TierCounters(progress_info) = progress_info.completed - already_completed
                /\ progress_info.completed = Len(checkpoint_csv'.content)
                /\ progress_info.completed <= progress_info.total ]_vars

\* save_batch_output writes the data file before the metadata file
WritesDataFirst ==
    \A b \in BatchNums :
        b_files'[b].metadata # b_files[b].metadata =>
            /\ b_files[b].csv = CsvFile(BatchData(b))
            /\ b_files'[b].csv = b_files[b].csv

\* a batch is reported as existing only when both files exist and the data
\* file holds a record
ExistingHasBothFiles ==
    \A b \in BatchNums :
        check_batch_exists(b_files[b]) =>
            /\ b_files[b].csv.state # "absent"
            /\ b_files[b].metadata.state # "absent"
            /\ Len(b_files[b].csv.content) >= 1

\* a batch whose save was interrupted before its metadata was written is not
\* reported as existing to the next process
InterruptedNotExisting ==
    b_pc = "idle" => \A b \in b_torn : ~check_batch_exists(b_files[b])

\* a batch reported as existing is passed over with its files untouched,
\* unless its reprocessing is forced
ExistingSkipped ==
    (b_pc = "loop" /\ b_idx < MaxBatches /\ check_batch_exists(b_files[batch_num])
        /\ batch_num \notin b_force /\ b_pc' # "idle")
        => (b_idx' = b_idx + 1 /\ b_files' = b_files)

\* C30 (as claimed): the data file of a batch is written before its metadata
\* file; a batch is reported as existing only with both files and a record in
\* the data file; a save interrupted before the metadata is written is never
\* reported as existing; an existing batch is skipped unless forced.
C30_BatchCommitOrder ==
    [][ WritesDataFirst /\ ExistingHasBothFiles /\ InterruptedNotExisting
        /\ ExistingSkipped ]_vars

\* the part of C30 that the code keeps
C30_OrderAndSkip ==
    [][ WritesDataFirst /\ ExistingHasBothFiles /\ ExistingSkipped ]_vars

\* an interrupted save that left no metadata file at all is not reported
C30_NoMetadataNotExisting ==
    b_pc = "idle" =>
        \A b \in b_torn :
            b_files[b].metadata.state = "absent" => ~check_batch_exists(b_files[b])

\* a forced save over a complete batch was interrupted after the data file
\* was rewritten: the batch is reported as existing with its old metadata
C30_StaleMetadataReached ==
    /\ b_pc = "idle"
    /\ \E b \in b_torn :
          /\ b_files[b].metadata.state = "written"
          /\ check_batch_exists(b_files[b])

\* the rows of a table that a city table match produced
CityMatched(table) ==
    {k \in DOMAIN table : table[k].data_source \in {"worldcities", "worldcities_small"}}

\* no two city-matched rows of the table carry the same city and country
OneCityPerStation(table) ==
    \A j, k \in CityMatched(table) : j # k => city_key(table[j]) # city_key(table[k])

\* C28 (as claimed): in the accumulated result set of the earlier script,
\* after any number of batches and across resumed sessions, no two Locations
\* tagged worldcities or worldcities_small carry the same city and country.
C28_OneCityPerStation ==
    /\ OneCityPerStation(l_checkpoint.content)
    /\ OneCityPerStation(l_already_geocoded \o l_batch_results)

\* the part of C28 that the code keeps: the rows resolved by one process
\* carry different cities
C28_OneCityPerStationInSession ==
    OneCityPerStation(SubSeq(l_already_geocoded, l_already_completed + 1,
                             Len(l_already_geocoded)) \o l_batch_results)

\* within one process the second station near Rome gets the next city
C28_NextCityReached ==
    /\ l_pc = "returned"
    /\ Cardinality(CityMatched(l_final_result)) >= 2
    /\ \E j, k \in CityMatched(l_final_result) :
          /\ l_final_result[j].city = "Rome"
          /\ l_final_result[k].city = "Ciampino"
          /\ l_final_result[k].data_source = "worldcities_small"

====
